---- MODULE Spec2Model ----
(***************************************************************************)
(* A model of the blocking query client of sensorfabric                    *)
(* (src/sensorfabric/athena.py): execQuery submits a query, busy-polls the *)
(* execution, optionally downloads the result object, pages through the    *)
(* rows and keeps a file cache keyed by the MD5 of the query text.         *)
(*                                                                         *)
(* The remote query service, the object store and the local file system    *)
(* are the environment.  Python values are written as strings:             *)
(*   "None"   the Python None          "nan"    a pandas NaN               *)
(*   "1","x"  Python str values        "int:1"  an int64 parsed by pandas  *)
(*   "float:1.0" a float64 parsed by pandas                                *)
(***************************************************************************)
EXTENDS Integers, Sequences, FiniteSets, TLC

\* ---------------------------------------------------------------- bounds
\* Queries submitted to the service in one behaviour; calls served from the
\* cache are not counted and may come before and after in any number.
MaxExecutions == 1
MaxDataRows == 2    \* data rows of one result set
MaxCols == 2        \* columns of one result set

\* ------------------------------------------------------------ value sets
\* Query texts are character sequences; these differ only in letter case
\* or in trailing whitespace.
Queries == { <<"s">>, <<"S">>, <<"s", " ">> }

\* defaultTimeout values a caller may pass (60 is the default).
Timeouts == {0, 60}

\* A Datum of a service row is {} (no data) or {'VarCharValue': v}.
EmptyDatum == "{}"
CellValues == {"1"}
Datums == CellValues \cup {EmptyDatum}

ColumnNames == {"a", "b"}

\* NextToken: the service's continuation token; the model's tokens are the
\* offsets 1, 2, ... and NoToken stands for None / an absent NextToken.
NoToken == 0

Terminal == {"SUCCEEDED", "FAILED", "CANCELLED"}

\* ------------------------------------------------------- sequence helpers
RECURSIVE SeqsUpTo(_, _)
SeqsUpTo(S, n) ==
    IF n = 0 THEN { <<>> }
    ELSE LET shorter == SeqsUpTo(S, n - 1)
         IN shorter \cup { Append(s, x) : s \in { t \in shorter : Len(t) = n - 1 }, x \in S }

SeqsOfLen(S, n) == { s \in SeqsUpTo(S, n) : Len(s) = n }

Range(s) == { s[i] : i \in DOMAIN s }

IsInjective(s) == \A i, j \in DOMAIN s : s[i] = s[j] => i = j

\* ------------------------------------------------------------ data frames
\* A pandas DataFrame: its column labels in order and, per label, the column.
EmptyFrame == [columns |-> <<>>, data |-> [c \in {} |-> <<>>]]

NRows(frame) ==
    IF frame.columns = <<>> THEN 0 ELSE Len(frame.data[frame.columns[1]])

\* Row r of a frame, as the sequence of its cells in column order.
FrameRow(frame, r) == [i \in DOMAIN frame.columns |-> frame.data[frame.columns[i]][r]]

\* The labels of a sequence in first-occurrence order (the key order of a dict
\* filled by "for c in columnNames: map[c] = []").
RECURSIVE DictKeys(_)
DictKeys(names) ==
    IF names = <<>> THEN <<>>
    ELSE LET front == DictKeys(SubSeq(names, 1, Len(names) - 1))
             last == names[Len(names)]
         IN IF last \in Range(front) THEN front ELSE Append(front, last)

RECURSIVE Repeat(_, _)
Repeat(v, n) == IF n = 0 THEN <<>> ELSE Append(Repeat(v, n - 1), v)

\* A plausible slip: the new page is put in front of the rows held so far.
Mutant_Concat(frame, framepage) ==
    LET cols == DictKeys(frame.columns \o framepage.columns)
        side(f, c) == IF c \in Range(f.columns) THEN f.data[c] ELSE Repeat("nan", NRows(f))
    IN [columns |-> cols,
        data |-> [c \in Range(cols) |-> side(framepage, c) \o side(frame, c)]]

\* pandas.concat([frame, framepage]): rows stacked in argument order under the
\* union of the labels, a label missing on one side filled with NaN.
Concat(frame, framepage) ==
    LET cols == DictKeys(frame.columns \o framepage.columns)
        side(f, c) == IF c \in Range(f.columns) THEN f.data[c] ELSE Repeat("nan", NRows(f))
    IN [columns |-> cols,
        data |-> [c \in Range(cols) |-> side(frame, c) \o side(framepage, c)]]

\* ------------------------------------------------------------ queryResults
\* The value stored for one Datum: r[k] of its only key, None for {}.
DatumValue(r) == IF r = EmptyDatum THEN "None" ELSE r

\* The (label, value) appends of rows dataStart+1 .. Len(data), in the order
\* of the two nested loops "for i in range(dataStart, len(data))" and
\* "for idx, r in enumerate(row)".
RECURSIVE RowAppends(_, _, _)
RowAppends(row, columnNames, idx) ==
    IF idx > Len(row) THEN <<>>
    ELSE <<  <<columnNames[idx], DatumValue(row[idx])>>  >>
         \o RowAppends(row, columnNames, idx + 1)

RECURSIVE MapAppends(_, _, _)
MapAppends(data, columnNames, i) ==
    IF i > Len(data) THEN <<>>
    ELSE RowAppends(data[i], columnNames, 1) \o MapAppends(data, columnNames, i + 1)

RECURSIVE ValuesOf(_, _)
ValuesOf(appends, c) ==
    IF appends = <<>> THEN <<>>
    ELSE LET rest == ValuesOf(Tail(appends), c)
         IN IF Head(appends)[1] = c THEN << Head(appends)[2] >> \o rest ELSE rest

\* A plausible slip: the first row of every page is taken for the label row.
Mutant_DataStart(columnNames) == 1

\* queryResults, lines 167-170: the index of the first data row; the first
\* row holds the labels when no labels were passed in.
DataStart(columnNames) == IF Len(columnNames) <= 0 THEN 1 ELSE 0

\* queryResults after the get_query_results call returned `data` (the Rows of
\* the ResultSet) and `resultToken` (the NextToken, NoToken when absent).
\*   ret = "frame": the bare "return pandas.DataFrame()" of an empty Rows list
\*   ret = "tuple": "return (frame, nextToken)"
\*   ret = "IndexError" / "ValueError": a row with more cells than labels, or
\*         columns of unequal length passed to pandas.DataFrame
QueryResultsBody(data, resultToken, columnNames) ==
    IF Len(data) <= 0
    THEN [ret |-> "frame", frame |-> EmptyFrame, nextToken |-> NoToken]
    ELSE
      LET fromHeader == Len(columnNames) <= 0
          dataStart == DataStart(columnNames)
          names == IF fromHeader THEN data[1] ELSE columnNames
          keys == DictKeys(names)
          appends == MapAppends(data, names, dataStart + 1)
          map == [c \in Range(keys) |-> ValuesOf(appends, c)]
      IN IF \E i \in (dataStart + 1)..Len(data) : Len(data[i]) > Len(names)
         THEN [ret |-> "IndexError", frame |-> EmptyFrame, nextToken |-> NoToken]
         ELSE IF \E c, d \in Range(keys) : Len(map[c]) # Len(map[d])
         THEN [ret |-> "ValueError", frame |-> EmptyFrame, nextToken |-> NoToken]
         ELSE [ret |-> "tuple",
               frame |-> [columns |-> keys, data |-> map],
               nextToken |-> resultToken]

\* --------------------------------------------------------------- cache file
\* hashlib.md5(queryString.encode()).hexdigest(): a digest of the exact
\* character sequence.  The digest is modelled by a positional code of the
\* characters, which like MD5 on these inputs gives different texts
\* different names.
CharCode(ch) == CASE ch = "s" -> 1 [] ch = "S" -> 2 [] ch = " " -> 3

RECURSIVE Digest(_)
Digest(chars) ==
    IF chars = <<>> THEN 0
    ELSE Digest(SubSeq(chars, 1, Len(chars) - 1)) * 4 + CharCode(chars[Len(chars)])

\* A plausible slip: the text is normalised (lower-cased, stripped) before
\* hashing.
Normalise(chars) ==
    LET lower == [i \in DOMAIN chars |-> IF chars[i] = "S" THEN "s" ELSE chars[i]]
        isInk(ch) == ch # " "
    IN SelectSeq(lower, isInk)

Mutant_cacheFileName(queryString) == Digest(Normalise(queryString))

\* athena._cacheFileName
cacheFileName(queryString) == Digest(queryString)

\* ------------------------------------------------------------ CSV round trip
NoFile == [kind |-> "absent"]

\* frame.to_csv(path, index=False): a header line and one line per row; None
\* and NaN are written as the empty field.
CsvField(v) == IF v \in {"None", "nan"} THEN "" ELSE v

to_csv(frame) ==
    [kind |-> "csv",
     header |-> frame.columns,
     lines |-> [r \in 1..NRows(frame) |->
                  [i \in DOMAIN frame.columns |-> CsvField(frame.data[frame.columns[i]][r])]]]

NumericFields == {"1"}

\* pandas.read_csv: per column, an empty field is NaN; a column whose filled
\* fields are all numeric is parsed (int64 without gaps, float64 with gaps);
\* any other column keeps its strings.
ParsedColumn(fields) ==
    LET filled == { fields[r] : r \in DOMAIN fields } \ {""}
        numeric == filled # {} /\ filled \subseteq NumericFields
        gaps == "" \in Range(fields)
    IN [r \in DOMAIN fields |->
          IF fields[r] = "" THEN "nan"
          ELSE IF numeric /\ gaps THEN "float:1.0"
          ELSE IF numeric THEN "int:1"
          ELSE fields[r]]

\* read_csv of a file without a header line raises EmptyDataError.
ReadCsvRaises(file) == file.header = <<>>

read_csv(file) ==
    [columns |-> file.header,
     data |-> [c \in Range(file.header) |->
                 LET i == CHOOSE k \in DOMAIN file.header : file.header[k] = c
                 IN ParsedColumn([r \in DOMAIN file.lines |-> file.lines[r][i]])]]

\* ------------------------------------------------------------ environment
\* The athena objects of the process, as constructed by __init__ (the fields a
\* query reads).  s3_location "None" is the default; "s3://bucket" has no
\* object path, so the pattern s3://([^/]+)/(.+) does not match it.
Clients ==
    { [database |-> "db1", offlineCache |-> TRUE,  s3_location |-> "s3://bucket/results"],
      [database |-> "db2", offlineCache |-> TRUE,  s3_location |-> "None"],
      [database |-> "db1", offlineCache |-> FALSE, s3_location |-> "s3://bucket"] }

\* re.search(r's3://([^/]+)/(.+)', self.s3_location) finds bucket and path.
LocationMatches(s3_location) == s3_location = "s3://bucket/results"

\* The result of an execution as the service holds it: no result set at all
\* (ResultSet.Rows is empty), or a row of column labels followed by data
\* rows, every row holding one Datum per column, the labels pairwise distinct.
NoResultSet == [header |-> <<>>, rows |-> <<>>]

Headers == { h \in SeqsUpTo(ColumnNames, MaxCols) : h # <<>> /\ IsInjective(h) }

ResultSets ==
    { NoResultSet } \cup
    UNION { { [header |-> h, rows |-> rs] : rs \in SeqsUpTo(SeqsOfLen(Datums, Len(h)), MaxDataRows) }
            : h \in Headers }

\* ResultSet.Rows as get_query_results pages through it: the label row first.
RawRows(result) ==
    IF result.header = <<>> THEN <<>> ELSE << result.header >> \o result.rows

\* The CSV object the service leaves in the object store for a result set:
\* a Datum without data is an empty field.
ResultObject(result) ==
    [kind |-> "csv",
     header |-> result.header,
     lines |-> [r \in DOMAIN result.rows |->
                  [i \in DOMAIN result.rows[r] |->
                     IF result.rows[r][i] = EmptyDatum THEN "" ELSE result.rows[r][i]]]]

\* A file left in .cache by an earlier process.
PriorFile == [kind |-> "csv", header |-> <<"a">>, lines |-> << <<"x">> >>]

CacheNames == { cacheFileName(q) : q \in Queries }

NoCall ==
    [self |-> CHOOSE c \in Clients : TRUE, queryString |-> <<>>, cached |-> FALSE,
     defaultTimeout |-> 60, s3Transfer |-> FALSE]

\* known: whether the result set has been observed yet (it is fixed by the
\* service when the execution ends and chosen here when first looked at).
NoExecution ==
    [id |-> 0, state |-> "NONE", known |-> FALSE, result |-> NoResultSet, hung |-> FALSE]

NoOutcome == [kind |-> "none", frame |-> EmptyFrame, error |-> ""]

\* No cache name computed (the local `filename` is unbound).
NoName == 0

NoTouch == [queryString |-> <<>>, database |-> "", filename |-> NoName]

\* ------------------------------------------------------------------ state
VARIABLES
    cacheFiles,   \* the files of .cache: cache name -> CSV file or NoFile
    exec,         \* the service's record of the execution being run
    pc,           \* where execQuery is: "idle", "start", "poll", "s3", "results", "done"
    call,         \* self and the arguments of the execQuery call
    executionId,  \* local of execQuery
    state,        \* local of execQuery: the last State polled
    frame,        \* local of execQuery
    nextToken,    \* local of execQuery
    outcome,      \* how the call ended: the frame returned or the error raised
    nExecutions,  \* queries submitted so far; the next execution id
    log,          \* the remote calls of the current execQuery call, in order
    filename,     \* local of execQuery: the cache name computed, NoName if none
    cacheBefore,  \* cacheFiles when the current call began
    written,      \* query text -> the frame last returned from the page loop of
                  \* a client with offlineCache (NotWritten if none was)
    prevTouch     \* the query text, database and cache name of the latest
                  \* earlier call that computed a cache name

vars == << cacheFiles, exec, pc, call, executionId, state, frame, nextToken,
           outcome, nExecutions, log, filename, cacheBefore, written, prevTouch >>

\* The state of the other parts of the library, each with a specification of
\* its own further down; a specification leaves the others' variables alone.
VARIABLES
    threads,      \* thread -> the locals of its execQuery call (two callers at once)
    executions,   \* the service's executions, by execution id (two callers at once)
    json_data,    \* flatten_json_to_columns: the argument
    fill,         \* flatten_json_to_columns: the argument
    flattened,    \* the record flatten returned
    reflattened,  \* the record flatten returned for `flattened`
    tsdata,       \* convert_dict_timestamps: the argument `data`
    timezone,     \* convert_dict_timestamps: the argument
    converted,    \* the structure convert_dict_timestamps returned
    reconverted   \* the structure it returned for `converted`

threadVars == << threads, executions >>
flattenVars == << json_data, fill, flattened, reflattened >>
timestampVars == << tsdata, timezone, converted, reconverted >>

\* A variable of a part that is not running.
NotRun == [type |-> "not run"]

\* The parts added after these: each has its variables, and the condition
\* under which it is not running.
VARIABLES
    columnNamesDefault,  \* queryResults: the list object of the default
                         \* "columnNames=[]", made once when the class is defined
    queryResultsCall     \* the latest direct call of queryResults and its return

queryResultsVars == << columnNamesDefault, queryResultsCall >>

QueryResultsIdle == columnNamesDefault = <<>> /\ queryResultsCall = NotRun

VARIABLES
    localZone,    \* the time zone of the host process (TZ), which fromtimestamp uses
    tzValue,      \* the value of the key "timestamp" in the dict given
    tzTarget,     \* the argument `timezone`
    tzReturn      \* how convert_dict_timestamps ended: the dict returned or the error

hostVars == << localZone, tzValue, tzTarget, tzReturn >>

HostIdle == localZone = "UTC" /\ tzValue = NotRun /\ tzTarget = "None" /\ tzReturn = NotRun

VARIABLES
    schemaFile,       \* schemas/sensor_data_schema_flattened.json: "present",
                      \* "not json" or "missing"
    validateArg,      \* validate_sensor_data_schema: the argument json_data
    validateOutcome   \* how the call ended: returned, or the error raised

validateVars == << schemaFile, validateArg, validateOutcome >>

ValidateIdle == schemaFile = "present" /\ validateArg = NotRun /\ validateOutcome = NotRun

VARIABLES
    uploadBatch,    \* process_sns_messages: per SNS record, the metric records
                    \* uh_api.get_metrics returns for its participant
    uploadAt,       \* the participant and the metric record the loops are at
    uploadWritten,  \* the records written with wr.s3.to_parquet, in order
    uploadResults   \* the local `results`: one entry per participant done

uploadVars == << uploadBatch, uploadAt, uploadWritten, uploadResults >>

UploadIdle ==
    /\ uploadBatch = <<>> /\ uploadAt = NotRun
    /\ uploadWritten = <<>> /\ uploadResults = <<>>

VARIABLES
    mdhNow,     \* datetime.now(), in units of five minutes
    mdhToken,   \* MDH.token: None or the access token of an issue
    tokenexp,   \* MDH.tokenexp: None or a time
    mdhSent     \* the last GET request sent: its Authorization token and time

mdhVars == << mdhNow, mdhToken, tokenexp, mdhSent >>

MdhIdle == mdhNow = 0 /\ mdhToken = NotRun /\ tokenexp = NotRun /\ mdhSent = NotRun

laterVars == << queryResultsVars, hostVars, validateVars, uploadVars, mdhVars >>

LaterIdle == QueryResultsIdle /\ HostIdle /\ ValidateIdle /\ UploadIdle /\ MdhIdle

NotWritten == [columns |-> << "(none)" >>, data |-> [c \in {"(none)"} |-> <<>>]]

Init ==
    /\ cacheFiles \in { [n \in CacheNames |-> NoFile],
                        [n \in CacheNames |-> IF n = cacheFileName(<<"s">>) THEN PriorFile ELSE NoFile] }
    /\ exec = NoExecution
    /\ pc = "idle"
    /\ call = NoCall
    /\ executionId = 0
    /\ state = "None"
    /\ frame = EmptyFrame
    /\ nextToken = NoToken
    /\ outcome = NoOutcome
    /\ nExecutions = 0
    /\ log = <<>>
    /\ filename = NoName
    /\ cacheBefore = cacheFiles
    /\ written = [q \in Queries |-> NotWritten]
    /\ prevTouch = NoTouch
    /\ threads = <<>> /\ executions = <<>>
    /\ json_data = NotRun /\ fill = FALSE /\ flattened = NotRun /\ reflattened = NotRun
    /\ tsdata = NotRun /\ timezone = "None" /\ converted = NotRun /\ reconverted = NotRun
    /\ LaterIdle

\* ---------------------------------------------------------------- helpers
LogEntry(op, id, token, rows, next) ==
    [op |-> op, id |-> id, token |-> token, rows |-> rows, next |-> next]

\* The polls of one busy loop are logged as one entry, holding the last report.
LogPoll(l, id, polled) ==
    LET e == LogEntry("get_query_execution", id, NoToken, << <<polled>> >>, NoToken)
    IN IF l[Len(l)].op = "get_query_execution"
       THEN [l EXCEPT ![Len(l)] = e]
       ELSE Append(l, e)

Raise(error) == [kind |-> "raised", frame |-> EmptyFrame, error |-> error]

Return(f) == [kind |-> "returned", frame |-> f, error |-> ""]

\* A plausible slip: the test of offlineCache is left out.
Mutant_CacheHit(c) ==
    /\ c.cached
    /\ cacheFiles[cacheFileName(c.queryString)] # NoFile

\* "if self.offlineCache and cached" with "os.path.isfile(path)".
CacheHit(c) ==
    /\ c.self.offlineCache
    /\ c.cached
    /\ cacheFiles[cacheFileName(c.queryString)] # NoFile

\* The cache name the call that now ends has computed, kept for the next call.
Touched ==
    IF filename = NoName THEN prevTouch
    ELSE [queryString |-> call.queryString, database |-> call.self.database,
          filename |-> filename]

\* A plausible slip: the frame is saved only by a call that asked for cached
\* results.
Mutant_CacheWrite(files, c, whole) ==
    IF c.self.offlineCache /\ c.cached
    THEN [files EXCEPT ![cacheFileName(c.queryString)] = to_csv(whole)]
    ELSE files

\* execQuery, lines 297-299: the frame is saved under the name of the query
\* text when offline caching is on.
CacheWrite(files, c, whole) ==
    IF c.self.offlineCache
    THEN [files EXCEPT ![cacheFileName(c.queryString)] = to_csv(whole)]
    ELSE files

\* A plausible slip: a timeout of zero ends the loop at once.
Mutant_PollExits(polled, defaultTimeout) == polled \in Terminal \/ defaultTimeout = 0

\* The loop test of the poll loop (line 247): leave on a terminal State.
PollExits(polled, defaultTimeout) == polled \in Terminal

CallArgs ==
    [self : Clients, queryString : Queries, cached : BOOLEAN,
     defaultTimeout : Timeouts, s3Transfer : BOOLEAN]

\* ----------------------------------------------------------------- actions
\* execQuery, lines 227-234: the cached result is requested and on file.
ExecQueryFromCache(c) ==
    /\ pc \in {"idle", "done"}
    /\ CacheHit(c)
    /\ LET file == cacheFiles[cacheFileName(c.queryString)]
       IN outcome' = IF ReadCsvRaises(file) THEN Raise("EmptyDataError")
                     ELSE Return(read_csv(file))
    /\ call' = c
    /\ cacheBefore' = cacheFiles
    /\ log' = <<>>
    /\ pc' = "done"
    /\ executionId' = 0
    /\ state' = "None"
    /\ frame' = EmptyFrame
    /\ nextToken' = NoToken
    /\ exec' = NoExecution
    /\ filename' = cacheFileName(c.queryString)
    /\ prevTouch' = Touched
    /\ UNCHANGED << cacheFiles, nExecutions, written >>
    /\ UNCHANGED << threadVars, flattenVars, timestampVars, laterVars >>

\* execQuery, lines 236-241, with startQueryExec: no cache hit, the query is
\* submitted.  The service rejects the call or issues a fresh execution id.
ExecQuerySubmit(c) ==
    /\ pc \in {"idle", "done"}
    /\ nExecutions < MaxExecutions
    /\ ~CacheHit(c)
    /\ call' = c
    /\ nExecutions' = nExecutions + 1
    /\ cacheBefore' = cacheFiles
    /\ state' = "None"
    /\ frame' = EmptyFrame
    /\ nextToken' = NoToken
    /\ \/ /\ exec' = NoExecution
          /\ executionId' = 0
          /\ log' = << LogEntry("start_query_execution", 0, NoToken,
                                << c.queryString, <<c.self.database>> >>, NoToken) >>
          /\ outcome' = Raise("ClientError")
          /\ pc' = "done"
       \/ \E hung \in BOOLEAN :
          /\ exec' = [id |-> nExecutions + 1, state |-> "QUEUED", known |-> FALSE,
                      result |-> NoResultSet, hung |-> hung]
          /\ executionId' = nExecutions + 1
          /\ log' = << LogEntry("start_query_execution", nExecutions + 1, NoToken,
                                << c.queryString, <<c.self.database>> >>, NoToken) >>
          /\ outcome' = NoOutcome
          /\ pc' = "poll"
    /\ filename' = IF c.self.offlineCache /\ c.cached
                   THEN cacheFileName(c.queryString) ELSE NoName
    /\ prevTouch' = Touched
    /\ UNCHANGED << cacheFiles, written >>
    /\ UNCHANGED << threadVars, flattenVars, timestampVars, laterVars >>

\* The service works on the execution: QUEUED, RUNNING, then a terminal
\* state.  An execution marked hung stays where it is.
AthenaAdvance ==
    /\ pc = "poll"
    /\ ~exec.hung
    /\ \/ /\ exec.state = "QUEUED"
          /\ exec' = [exec EXCEPT !.state = "RUNNING"]
       \/ /\ exec.state = "RUNNING"
          /\ \E t \in Terminal : exec' = [exec EXCEPT !.state = t]
    /\ UNCHANGED << cacheFiles, pc, call, executionId, state, frame, nextToken,
                    outcome, nExecutions, log, filename, cacheBefore, written,
                    prevTouch >>
    /\ UNCHANGED << threadVars, flattenVars, timestampVars, laterVars >>

\* execQuery, lines 250-255: the error raised for the terminal State.  Both
\* branches are "pass", so no State raises.
ErrorForState(polled) ==
    IF polled = "FAILED" THEN ""
    ELSE IF polled = "CANCELLED" THEN ""
    ELSE ""

\* execQuery, lines 244-255: one turn of the busy loop in which
\* get_query_execution reports the State of the execution.
GetQueryExecution ==
    /\ pc = "poll"
    /\ state' = exec.state
    /\ log' = LogPoll(log, executionId, exec.state)
    /\ IF ~PollExits(exec.state, call.defaultTimeout)
       THEN pc' = "poll" /\ UNCHANGED outcome
       ELSE IF ErrorForState(exec.state) # ""
       THEN pc' = "done" /\ outcome' = Raise(ErrorForState(exec.state))
       ELSE /\ pc' = IF call.s3Transfer THEN "s3" ELSE "results"
            /\ UNCHANGED outcome
    /\ UNCHANGED << cacheFiles, exec, call, executionId, frame, nextToken,
                    nExecutions, filename, cacheBefore, written, prevTouch >>
    /\ UNCHANGED << threadVars, flattenVars, timestampVars, laterVars >>

\* execQuery, line 245: the call to get_query_execution itself fails and the
\* error leaves execQuery.
GetQueryExecutionFails ==
    /\ pc = "poll"
    /\ outcome' = Raise("ClientError")
    /\ pc' = "done"
    /\ log' = LogPoll(log, executionId, "ClientError")
    /\ UNCHANGED state
    /\ UNCHANGED << cacheFiles, exec, call, executionId, frame, nextToken,
                    nExecutions, filename, cacheBefore, written, prevTouch >>
    /\ UNCHANGED << threadVars, flattenVars, timestampVars, laterVars >>

\* execQuery, lines 257-281: the result object <path>/<executionId>.csv is
\* downloaded and read.  An execution whose output is not CSV (a metadata
\* query) has no such object, and download_file raises for a missing object.
S3Transfer ==
    /\ pc = "s3"
    /\ IF call.self.s3_location = "None"
       THEN \* re.search(pattern, None)
            /\ outcome' = Raise("TypeError")
            /\ pc' = "done"
            /\ UNCHANGED << exec, log >>
       ELSE IF ~LocationMatches(call.self.s3_location)
       THEN \* bucketName and objPath stay None
            /\ pc' = "results"
            /\ UNCHANGED << exec, log, outcome >>
       ELSE
         \/ /\ outcome' = Raise("ClientError")
            /\ pc' = "done"
            /\ log' = Append(log, LogEntry("download_file", executionId, NoToken, <<>>, NoToken))
            /\ UNCHANGED exec
         \/ \E result \in ResultSets \ {NoResultSet} :
              LET downloaded == read_csv(ResultObject(result))
              IN /\ log' = Append(log, LogEntry("download_file", executionId, NoToken,
                                                RawRows(result), NoToken))
                 /\ exec' = [exec EXCEPT !.known = TRUE, !.result = result]
                 /\ IF NRows(downloaded) > 0
                    THEN outcome' = Return(downloaded) /\ pc' = "done"
                    ELSE pc' = "results" /\ UNCHANGED outcome
    /\ UNCHANGED << cacheFiles, call, executionId, state, frame, nextToken,
                    nExecutions, filename, cacheBefore, written, prevTouch >>
    /\ UNCHANGED << threadVars, flattenVars, timestampVars, laterVars >>

\* The pages the service may answer with for a request at `offset`: at least
\* one row while rows remain, with a NextToken exactly when more follow.
PageSizes(raw, offset) == IF raw = <<>> THEN {0} ELSE 1..(Len(raw) - offset)

\* execQuery, lines 286-301, with queryResults: one page is requested (the
\* first without a token); after the page without NextToken the frame is
\* written to the cache (offlineCache) and returned.
QueryResults ==
    /\ pc = "results"
    /\ \/ /\ outcome' = Raise("ClientError")
          /\ pc' = "done"
          /\ log' = Append(log, LogEntry("get_query_results", executionId, nextToken, <<>>, NoToken))
          /\ UNCHANGED << cacheFiles, exec, frame, nextToken, filename, written >>
       \/ \E result \in (IF exec.known THEN {exec.result} ELSE ResultSets) :
          \E k \in PageSizes(RawRows(result), nextToken) :
            LET raw == RawRows(result)
                data == SubSeq(raw, nextToken + 1, nextToken + k)
                resultToken == IF nextToken + k < Len(raw) THEN nextToken + k ELSE NoToken
                first == nextToken = NoToken
                r == QueryResultsBody(data, resultToken, IF first THEN <<>> ELSE frame.columns)
                whole == IF first THEN r.frame ELSE Concat(frame, r.frame)
            IN /\ log' = Append(log, LogEntry("get_query_results", executionId, nextToken,
                                              data, resultToken))
               /\ exec' = [exec EXCEPT !.known = TRUE, !.result = result]
               /\ IF r.ret = "frame"
                  THEN \* "frame, nextToken = <DataFrame>": nothing to unpack
                       /\ outcome' = Raise("ValueError")
                       /\ pc' = "done"
                       /\ UNCHANGED << cacheFiles, frame, nextToken, filename, written >>
                  ELSE IF r.ret # "tuple"
                  THEN /\ outcome' = Raise(r.ret)
                       /\ pc' = "done"
                       /\ UNCHANGED << cacheFiles, frame, nextToken, filename, written >>
                  ELSE IF r.nextToken # NoToken
                  THEN /\ frame' = whole
                       /\ nextToken' = r.nextToken
                       /\ pc' = "results"
                       /\ UNCHANGED << cacheFiles, outcome, filename, written >>
                  ELSE /\ frame' = whole
                       /\ nextToken' = NoToken
                       /\ cacheFiles' = CacheWrite(cacheFiles, call, whole)
                       /\ IF call.self.offlineCache
                          THEN /\ filename' = cacheFileName(call.queryString)
                               /\ written' = [written EXCEPT ![call.queryString] = whole]
                          ELSE UNCHANGED << filename, written >>
                       /\ outcome' = Return(whole)
                       /\ pc' = "done"
    /\ UNCHANGED << call, executionId, state, nExecutions, cacheBefore, prevTouch >>
    /\ UNCHANGED << threadVars, flattenVars, timestampVars, laterVars >>

Next ==
    \/ \E c \in CallArgs : ExecQueryFromCache(c)
    \/ \E c \in CallArgs : ExecQuerySubmit(c)
    \/ AthenaAdvance
    \/ GetQueryExecution
    \/ GetQueryExecutionFails
    \/ S3Transfer
    \/ QueryResults

Spec == Init /\ [][Next]_vars

\* The calling thread keeps running its loop and its calls come back; the
\* service keeps working on an execution that is not hung.  Nothing makes a
\* remote call fail, so the failing poll is not assumed to ever happen.
LiveSpec ==
    /\ Init
    /\ [][Next]_vars
    /\ WF_vars(AthenaAdvance)
    /\ WF_vars(GetQueryExecution)
    /\ WF_vars(S3Transfer)
    /\ WF_vars(QueryResults)

\* ------------------------------------------------------------- the claims
IsPage(e) == e.op = "get_query_results"

\* The get_query_results requests of the current call, in order.
Pages == SelectSeq(log, IsPage)

\* The data rows the pages delivered, in page order: the first page without
\* its label row.
RECURSIVE DataRowsFrom(_, _)
DataRowsFrom(pages, j) ==
    IF j > Len(pages) THEN <<>>
    ELSE (IF j = 1 /\ pages[j].rows # <<>> THEN Tail(pages[j].rows) ELSE pages[j].rows)
         \o DataRowsFrom(pages, j + 1)

DataRows == DataRowsFrom(Pages, 1)

Paginated == pc = "done" /\ outcome.kind = "returned" /\ Pages # <<>>

\* C1: when the poll loop ended on FAILED, execQuery raises QueryFailed, when
\* it ended on CANCELLED it raises QueryCancelled; it returns no table.
C1_TerminalStateRaises ==
    pc = "done" =>
        /\ state = "FAILED" => outcome = Raise("QueryFailed")
        /\ state = "CANCELLED" => outcome = Raise("QueryCancelled")

\* C2: a call changes the cache only if its execution ended SUCCEEDED and its
\* last page request came back without a NextToken; a call that ended FAILED
\* or CANCELLED or that raised leaves the cache as it found it.
C2_CacheOnlyOnSuccess ==
    pc = "done" =>
        /\ cacheFiles # cacheBefore =>
              /\ state = "SUCCEEDED"
              /\ outcome.kind = "returned"
              /\ Pages # <<>> /\ Pages[Len(Pages)].next = NoToken
        /\ (state \in {"FAILED", "CANCELLED"} \/ outcome.kind = "raised") =>
              cacheFiles = cacheBefore

C4_PagesConcatenated ==
    /\ \A j \in DOMAIN Pages :
          /\ j = 1 => Pages[j].token = NoToken
          /\ j > 1 => Pages[j].token = Pages[j - 1].next /\ Pages[j - 1].next # NoToken
    /\ Paginated =>
          /\ Pages[Len(Pages)].next = NoToken
          /\ NRows(outcome.frame) = Len(DataRows)
          /\ \A r \in 1..Len(DataRows) :
                FrameRow(outcome.frame, r) =
                    [i \in DOMAIN DataRows[r] |->
                        IF DataRows[r][i] = EmptyDatum THEN "None" ELSE DataRows[r][i]]

C4_Witness ==
    /\ Paginated
    /\ Len(Pages) >= 2
    /\ Len(Pages[1].rows) >= 2
    /\ NRows(outcome.frame) >= 2
    /\ FrameRow(outcome.frame, 1) # FrameRow(outcome.frame, 2)

\* C5: during and after the page loop the labels of the frame are the first
\* row of the first page, that row is no data row, every row of a later page
\* is a data row, and cell i of a data row stands in the column labelled by
\* label i, None where the cell is empty.
C5_LabelsFromFirstPage ==
    ((pc = "results" /\ nextToken # NoToken) \/ Paginated) =>
        LET f == IF pc = "done" THEN outcome.frame ELSE frame
            labels == Pages[1].rows[1]
        IN /\ f.columns = labels
           /\ NRows(f) = Len(DataRows)
           /\ \A r \in 1..Len(DataRows) : \A i \in DOMAIN labels :
                 f.data[labels[i]][r] =
                     (IF DataRows[r][i] = EmptyDatum THEN "None" ELSE DataRows[r][i])

C5_Witness ==
    /\ Paginated
    /\ Len(Pages) >= 2
    /\ Len(Pages[1].rows[1]) = 2
    /\ Len(Pages[2].rows) >= 1
    /\ \E r \in 1..NRows(outcome.frame) :
          FrameRow(outcome.frame, r) = << "None", "1" >>

\* C6: the poll loop is left only on a report of SUCCEEDED, FAILED or
\* CANCELLED (or by an error of the poll itself); a call whose execution is
\* not hung comes to an end; a call whose execution is reported non-terminal
\* for ever stays in the loop, whatever its defaultTimeout.
C6_PollLoop ==
    /\ [][ (pc = "poll" /\ pc' # "poll") =>
               (exec.state \in Terminal \/ outcome' = Raise("ClientError")) ]_vars
    /\ [][ (pc = "poll" /\ exec.hung) =>
               (pc' = "poll" \/ outcome' = Raise("ClientError")) ]_vars
    /\ [](pc = "poll" /\ ~exec.hung => <>(pc = "done"))

C6_Witness ==
    /\ pc = "poll"
    /\ exec.hung
    /\ call.defaultTimeout = 0
    /\ state = "QUEUED"

\* C7: a call whose execution SUCCEEDED with a result of zero data rows, and
\* whose remote calls all came back, returns a frame of zero rows: with a
\* result of only the label row and with a result of no rows at all.
C7_EmptyResultReturned ==
    ( /\ pc = "done"
      /\ state = "SUCCEEDED"
      /\ exec.known /\ exec.result.rows = <<>>
      /\ outcome.error \notin {"ClientError", "TypeError"} )
    => (outcome.kind = "returned" /\ NRows(outcome.frame) = 0)

\* C8: a call with s3Transfer=True does not end with the download: when the
\* object is not obtained (or holds no rows) the call goes on to the pages,
\* so a call that ended right after download_file returned the frame read.
C8_FallsBackToPages ==
    ( /\ pc = "done"
      /\ call.s3Transfer
      /\ log # <<>>
      /\ log[Len(log)].op = "download_file" )
    => outcome.kind = "returned"

\* C9: two calls that computed a cache name computed the same name exactly
\* when their query texts are the same character sequence, whatever the
\* database of their clients.
C9_KeyIsExactText ==
    (filename # NoName /\ prevTouch # NoTouch) =>
        (filename = prevTouch.filename <=> call.queryString = prevTouch.queryString)

C9_Witness ==
    /\ filename # NoName /\ prevTouch # NoTouch
    /\ call.queryString = prevTouch.queryString
    /\ call.self.database # prevTouch.database
    /\ filename = prevTouch.filename

\* C10: a call on a client with offlineCache=False computes no cache name,
\* leaves the cache files as they were and starts with the submission of the
\* query, also with cached=True and with an entry for the text on file.
C10_CachedIgnoredWithoutOfflineCache ==
    (pc # "idle" /\ ~call.self.offlineCache) =>
        /\ filename = NoName
        /\ cacheFiles = cacheBefore
        /\ log # <<>> /\ log[1].op = "start_query_execution"

C10_Witness ==
    /\ pc = "done"
    /\ ~call.self.offlineCache
    /\ call.cached
    /\ cacheFiles[cacheFileName(call.queryString)] # NoFile
    /\ outcome.kind = "returned"
    /\ NRows(outcome.frame) > 0

\* ====================================================== two callers at once
\* Two threads call execQuery on one athena object at the same time.  The
\* locals of execQuery are per thread; the .cache directory and the service
\* are shared.  A step is one access to a file or one remote call.
Threads == {1, 2}

\* The athena object both threads use: offline caching is on.
SharedClient == CHOOSE c \in Clients : c.offlineCache /\ c.s3_location = "None"

\* Result sets of the executions of the two threads: none, or the column "a".
ThreadResultSets == { r \in ResultSets : r.header \in { <<>>, <<"a">> } }

\* The query texts of the two threads: the second is the text of the first,
\* or differs from it in letter case or in trailing whitespace.
ThreadQueries == { qs \in [Threads -> Queries] : qs[1] = <<"s">> }

\* The file as open(path, 'w') of to_csv leaves it until the lines are written.
TruncatedFile == [kind |-> "csv", header |-> <<>>, lines |-> <<>>]

\* execQuery(queryString, cached=cached): the other arguments at their defaults.
ThreadCall(queryString, cached) ==
    [self |-> SharedClient, queryString |-> queryString, cached |-> cached,
     defaultTimeout |-> 60, s3Transfer |-> FALSE]

\* The locals of one execQuery call at its first line.  source tells where a
\* returned frame came from; opened holds the cache names whose file the call
\* has tested, read or written.
ThreadStart(c) ==
    [pc |-> "start", call |-> c, executionId |-> 0, state |-> "None",
     frame |-> EmptyFrame, nextToken |-> NoToken, outcome |-> NoOutcome,
     source |-> "", opened |-> {}]

ThreadInit ==
    /\ cacheFiles \in { [n \in CacheNames |-> NoFile],
                        [n \in CacheNames |-> IF n = cacheFileName(<<"s">>) THEN PriorFile ELSE NoFile] }
    /\ \E qs \in ThreadQueries, cached \in [Threads -> BOOLEAN] :
         threads = [t \in Threads |-> ThreadStart(ThreadCall(qs[t], cached[t]))]
    /\ executions = <<>>
    /\ exec = NoExecution /\ pc = "idle" /\ call = NoCall /\ executionId = 0
    /\ state = "None" /\ frame = EmptyFrame /\ nextToken = NoToken
    /\ outcome = NoOutcome /\ nExecutions = 0 /\ log = <<>> /\ filename = NoName
    /\ cacheBefore = [n \in CacheNames |-> NoFile]
    /\ written = [q \in Queries |-> NotWritten] /\ prevTouch = NoTouch
    /\ json_data = NotRun /\ fill = FALSE /\ flattened = NotRun /\ reflattened = NotRun
    /\ tsdata = NotRun /\ timezone = "None" /\ converted = NotRun /\ reconverted = NotRun
    /\ LaterIdle

\* What a step of a thread leaves alone besides threads, executions, cacheFiles.
threadFrame ==
    << exec, pc, call, executionId, state, frame, nextToken, outcome, nExecutions,
       log, filename, cacheBefore, written, prevTouch, flattenVars, timestampVars, laterVars >>

\* execQuery, lines 227-230: the test "self.offlineCache and cached" and, if
\* it passes, os.path.isfile(path).
ThreadCacheTest(t) ==
    LET th == threads[t]
        name == cacheFileName(th.call.queryString)
    IN /\ th.pc = "start"
       /\ threads' = [threads EXCEPT
             ![t].pc = IF CacheHit(th.call) THEN "read" ELSE "submit",
             ![t].opened = IF th.call.self.offlineCache /\ th.call.cached
                           THEN th.opened \cup {name} ELSE th.opened]
       /\ UNCHANGED << cacheFiles, executions, threadFrame >>

\* execQuery, lines 231-234: the file found is opened and read.
ThreadCacheRead(t) ==
    LET th == threads[t]
        file == cacheFiles[cacheFileName(th.call.queryString)]
    IN /\ th.pc = "read"
       /\ threads' = [threads EXCEPT
             ![t].pc = "done",
             ![t].source = "cache",
             ![t].outcome = IF ReadCsvRaises(file) THEN Raise("EmptyDataError")
                            ELSE Return(read_csv(file))]
       /\ UNCHANGED << cacheFiles, executions, threadFrame >>

\* execQuery, lines 236-241, with startQueryExec: the service issues a fresh
\* execution id.
ThreadSubmit(t) ==
    /\ threads[t].pc = "submit"
    /\ executions' = Append(executions,
          [queryString |-> threads[t].call.queryString, state |-> "QUEUED",
           known |-> FALSE, result |-> NoResultSet])
    /\ threads' = [threads EXCEPT ![t].pc = "poll", ![t].executionId = Len(executions) + 1]
    /\ UNCHANGED << cacheFiles, threadFrame >>

\* A plausible slip: the execution id is kept on the shared object, so a
\* thread goes on with the id of the execution started last.
Mutant_QueryExecutionId(t) == Len(executions)

\* The QueryExecutionId a thread passes to the service: its local executionId.
QueryExecutionId(t) == threads[t].executionId

\* execQuery, lines 244-248: one turn of the busy loop.  The service reports
\* the State the execution has reached by then; a terminal State stays.
ThreadPoll(t) ==
    LET id == QueryExecutionId(t)
    IN /\ threads[t].pc = "poll"
       /\ \E polled \in (IF executions[id].state \in Terminal
                        THEN {executions[id].state} ELSE {"RUNNING"} \cup Terminal) :
            /\ executions' = [executions EXCEPT ![id].state = polled]
            /\ threads' = [threads EXCEPT
                  ![t].state = polled,
                  ![t].pc = IF PollExits(polled, threads[t].call.defaultTimeout)
                            THEN "results" ELSE "poll"]
       /\ UNCHANGED << cacheFiles, threadFrame >>

\* execQuery, lines 286-294, with queryResults: one page is requested; after
\* the page without NextToken the frame is complete.
ThreadResults(t) ==
    LET th == threads[t]
        id == QueryExecutionId(t)
    IN /\ th.pc = "results"
       /\ \/ /\ executions[id].state # "SUCCEEDED"
             /\ threads' = [threads EXCEPT ![t].pc = "done",
                                           ![t].outcome = Raise("ClientError")]
             /\ UNCHANGED executions
          \/ \E result \in (IF executions[id].known THEN {executions[id].result}
                            ELSE ThreadResultSets) :
             \E k \in PageSizes(RawRows(result), th.nextToken) :
               LET raw == RawRows(result)
                   page == SubSeq(raw, th.nextToken + 1, th.nextToken + k)
                   resultToken == IF th.nextToken + k < Len(raw)
                                  THEN th.nextToken + k ELSE NoToken
                   first == th.nextToken = NoToken
                   r == QueryResultsBody(page, resultToken,
                                         IF first THEN <<>> ELSE th.frame.columns)
                   whole == IF first THEN r.frame ELSE Concat(th.frame, r.frame)
               IN /\ executions' = [executions EXCEPT ![id].known = TRUE,
                                                      ![id].result = result]
                  /\ threads' =
                       IF r.ret # "tuple"
                       THEN [threads EXCEPT
                               ![t].pc = "done",
                               ![t].outcome = Raise(IF r.ret = "frame" THEN "ValueError"
                                                    ELSE r.ret)]
                       ELSE [threads EXCEPT
                               ![t].frame = whole,
                               ![t].nextToken = r.nextToken,
                               ![t].pc = IF r.nextToken # NoToken THEN "results"
                                         ELSE "open"]
       /\ UNCHANGED << cacheFiles, threadFrame >>

\* execQuery, lines 297-299 (offlineCache is on): to_csv opens the cache file
\* for writing, which creates it or empties it.
ThreadCacheOpen(t) ==
    LET th == threads[t]
        name == cacheFileName(th.call.queryString)
    IN /\ th.pc = "open"
       /\ cacheFiles' = [cacheFiles EXCEPT ![name] = TruncatedFile]
       /\ threads' = [threads EXCEPT ![t].pc = "write",
                                     ![t].opened = th.opened \cup {name}]
       /\ UNCHANGED << executions, threadFrame >>

\* execQuery, lines 299-301: to_csv writes the frame and the call returns.
ThreadCacheWrite(t) ==
    LET th == threads[t]
    IN /\ th.pc = "write"
       /\ cacheFiles' = CacheWrite(cacheFiles, th.call, th.frame)
       /\ threads' = [threads EXCEPT ![t].pc = "done", ![t].source = "pages",
                                     ![t].outcome = Return(th.frame)]
       /\ UNCHANGED << executions, threadFrame >>

ThreadNext ==
    \/ \E t \in Threads : ThreadCacheTest(t)
    \/ \E t \in Threads : ThreadCacheRead(t)
    \/ \E t \in Threads : ThreadSubmit(t)
    \/ \E t \in Threads : ThreadPoll(t)
    \/ \E t \in Threads : ThreadResults(t)
    \/ \E t \in Threads : ThreadCacheOpen(t)
    \/ \E t \in Threads : ThreadCacheWrite(t)

ThreadSpec == ThreadInit /\ [][ThreadNext]_<< cacheFiles, threads, executions >>

\* The cache name of the query text of thread t.
OwnName(t) == cacheFileName(threads[t].call.queryString)

\* The frame of a whole result set, as one page without NextToken gives it.
WholeFrame(result) == QueryResultsBody(RawRows(result), NoToken, <<>>).frame

DifferentTexts == threads[1].call.queryString # threads[2].call.queryString

\* C11: two execQuery calls running at once with different query texts
\* (offlineCache on) do not interfere, however their steps interleave.  Each
\* tests, reads and writes only the cache file of its own text; a file
\* changes only by a step of the thread whose text names it; a call served
\* from the cache returns the file as it stands, never a half-written one; a
\* call that pages returns the rows of the execution it started itself, and
\* those rows are what the cache holds under its text afterwards.
C11_NoInterference ==
    /\ [](DifferentTexts =>
            \A t \in Threads :
              LET th == threads[t]
              IN /\ th.opened \subseteq {OwnName(t)}
                 /\ th.source = "cache" =>
                      /\ th.outcome.kind = "returned"
                      /\ th.outcome.frame = read_csv(cacheFiles[OwnName(t)])
                 /\ th.source = "pages" =>
                      /\ executions[th.executionId].queryString = th.call.queryString
                      /\ th.outcome.frame = WholeFrame(executions[th.executionId].result)
                      /\ cacheFiles[OwnName(t)] = to_csv(th.outcome.frame))
    /\ [][DifferentTexts =>
            \A n \in CacheNames :
              cacheFiles'[n] # cacheFiles[n] =>
                \E t \in Threads : /\ OwnName(t) = n
                                   /\ threads[t].pc \in {"open", "write"}
                                   /\ threads'[t].pc # threads[t].pc
                                   /\ \A u \in Threads \ {t} : threads'[u] = threads[u]
         ]_<< cacheFiles, threads, executions >>

\* Both calls have paged through executions of their own, running at the same
\* time, and returned different rows.
C11_Witness ==
    /\ DifferentTexts
    /\ \A t \in Threads : /\ threads[t].pc = "done"
                          /\ threads[t].source = "pages"
                          /\ NRows(threads[t].outcome.frame) > 0
    /\ threads[1].outcome.frame # threads[2].outcome.frame
    /\ threads[1].executionId = 2

\* ================================================================= flatten
\* utils.flatten_json_to_columns, which json/Flatten.flatten calls.
\*
\* A JSON value is a record: a scalar carries its value in v ("None" is null),
\* an array its items in values, an object its keys, in the order of the
\* dict, in keys and the value of keys[i] in values[i].
MaxItems == 3       \* items of one array

Scalar(v) == [type |-> "scalar", v |-> v, keys |-> <<>>, values |-> <<>>]

Array(items) == [type |-> "array", v |-> "", keys |-> <<>>, values |-> items]

Object(keys, values) == [type |-> "object", v |-> "", keys |-> keys, values |-> values]

None == Scalar("None")

\* dict.get(key): the value of the key, None if the dict has no such key.
Get(item, key) ==
    IF \E i \in DOMAIN item.keys : item.keys[i] = key
    THEN item.values[CHOOSE i \in DOMAIN item.keys : item.keys[i] = key]
    ELSE None

\* new_key = f"{prefix}{separator}{key}" if prefix else key
NewKey(prefix, separator, key) ==
    IF prefix # "" THEN prefix \o separator \o key ELSE key

\* all_keys of a list of dicts: every key of every item, once.
RECURSIVE AllKeys(_)
AllKeys(items) ==
    IF items = <<>> THEN <<>>
    ELSE DictKeys(AllKeys(SubSeq(items, 1, Len(items) - 1)) \o items[Len(items)].keys)

\* "for item in obj: values.append(item.get(key))"
ValuesOfKey(items, key) == [i \in DOMAIN items |-> Get(items[i], key)]

\* A plausible slip: the list is stored as one value, like a scalar.
Mutant_ListColumn(items) == << Array(items) >>

\* Line 202: flattened[prefix] = obj, the list itself is the column.
ListColumn(items) == items

\* _flatten_recursive: the assignments flattened[name] = column it makes, in
\* order, each a pair << name, column >>.  (all_keys is a set: the order of
\* the names of one list of dicts is unspecified and nothing depends on it.)
RECURSIVE FlattenRecursive(_, _, _)
RECURSIVE FlattenItems(_, _, _, _)
FlattenItems(obj, prefix, separator, i) ==
    IF i > Len(obj.keys) THEN <<>>
    ELSE FlattenRecursive(obj.values[i], NewKey(prefix, separator, obj.keys[i]), separator)
         \o FlattenItems(obj, prefix, separator, i + 1)

FlattenRecursive(obj, prefix, separator) ==
    IF obj.type = "object" THEN FlattenItems(obj, prefix, separator, 1)
    ELSE IF obj.type = "array" THEN
        IF obj.values = <<>> THEN << <<prefix, <<>> >> >>
        ELSE IF \A i \in DOMAIN obj.values : obj.values[i].type = "object"
        THEN LET all_keys == AllKeys(obj.values)
             IN [j \in DOMAIN all_keys |->
                   << NewKey(prefix, separator, all_keys[j]),
                      ValuesOfKey(obj.values, all_keys[j]) >>]
        ELSE << <<prefix, ListColumn(obj.values)>> >>
    ELSE << <<prefix, <<obj>> >> >>

\* The dict a sequence of assignments and update() calls leaves: the keys in
\* the order they first appear, each with the column assigned to it last.
DictOf(assignments) ==
    LET names == [i \in DOMAIN assignments |-> assignments[i][1]]
        last(n) == CHOOSE i \in DOMAIN assignments :
                      /\ assignments[i][1] = n
                      /\ \A j \in DOMAIN assignments : assignments[j][1] = n => j <= i
    IN [type |-> "record",
        keys |-> DictKeys(names),
        data |-> [n \in Range(names) |-> assignments[last(n)][2]]]

\* Lines 211-214: the greatest column length, at least 1; looked for only
\* when fill is set.
MaxOf(S) == IF S = {} THEN 0
            ELSE LET x == CHOOSE y \in S : \A z \in S : z <= y IN x

MaxLength(flattened_data, fill_) ==
    IF fill_
    THEN LET longest == MaxOf({ Len(flattened_data.data[k]) : k \in DOMAIN flattened_data.data })
         IN IF longest > 1 THEN longest ELSE 1
    ELSE 1

\* A plausible slip: the test for a single value is left out.
Mutant_FillApplies(fill_, values, max_length) == fill_ /\ max_length > 1

\* Line 218: "fill and isinstance(values, list) and len(values) == 1 and
\* max_length > 1"; every column is a list.
FillApplies(fill_, values, max_length) ==
    fill_ /\ Len(values) = 1 /\ max_length > 1

\* A plausible slip: one repetition short.
Mutant_Replicate(values, max_length) == Repeat(values[1], max_length - 1)

\* Line 220: values * max_length, for the list values of one item.
Replicate(values, max_length) == Repeat(values[1], max_length)

flatten_json_to_columns(json_data_, fill_, separator) ==
    LET flattened_data == DictOf(FlattenRecursive(json_data_, "", separator))
        max_length == MaxLength(flattened_data, fill_)
    IN [type |-> "record",
        keys |-> flattened_data.keys,
        data |-> [k \in DOMAIN flattened_data.data |->
                    IF FillApplies(fill_, flattened_data.data[k], max_length)
                    THEN Replicate(flattened_data.data[k], max_length)
                    ELSE flattened_data.data[k]]]

\* json/Flatten.flatten(json_data, base_path, sep, fill)
flatten(json_data_, sep, fill_) == flatten_json_to_columns(json_data_, fill_, sep)

\* A returned record as the JSON object it is: the columns are its arrays.
ObjectOf(record) ==
    Object(record.keys, [i \in DOMAIN record.keys |-> Array(record.data[record.keys[i]])])

\* ------------------------------------------------------- inputs of flatten
FlattenScalars == { Scalar("1"), None }

\* The dicts that are items of a list, or the value of a key: keys "b" and
\* "v", any of them missing.
Elements ==
    { Object(<<>>, <<>>), Object(<<"b">>, << Scalar("1") >>),
      Object(<<"b", "v">>, << Scalar("1"), Scalar("1") >>) }

\* The values of a top-level key: a scalar, a dict, a list of up to n
\* scalars, a list of up to n dicts with keys, the list of one empty dict, or
\* a list mixing a dict and a scalar.
FlattenValues(n) ==
    FlattenScalars
    \cup Elements
    \cup { Array(items) : items \in SeqsUpTo(FlattenScalars, n) }
    \cup { Array(items) : items \in SeqsUpTo(Elements \ { Object(<<>>, <<>>) }, n) \ { <<>> } }
    \cup { Array(<< Object(<<>>, <<>>) >>) }
    \cup { Array(<< e, Scalar("1") >>) : e \in Elements \ { Object(<<>>, <<>>) } }

\* The keys of the top-level object; "a_b" is also the name a value nested
\* under "a" gets with the default separator.
TopKeys == { ks \in SeqsUpTo({"a", "a_b"}, 2) : IsInjective(ks) }

FlattenInputs(n) ==
    UNION { { Object(ks, vs) : vs \in SeqsOfLen(FlattenValues(n), Len(ks)) } : ks \in TopKeys }

FlattenInit ==
    /\ json_data \in FlattenInputs(MaxItems)
    /\ fill \in BOOLEAN
    /\ flattened = NotRun
    /\ reflattened = NotRun
    /\ cacheFiles = [n \in CacheNames |-> NoFile]
    /\ exec = NoExecution /\ pc = "idle" /\ call = NoCall /\ executionId = 0
    /\ state = "None" /\ frame = EmptyFrame /\ nextToken = NoToken
    /\ outcome = NoOutcome /\ nExecutions = 0 /\ log = <<>> /\ filename = NoName
    /\ cacheBefore = [n \in CacheNames |-> NoFile]
    /\ written = [q \in Queries |-> NotWritten] /\ prevTouch = NoTouch
    /\ threads = <<>> /\ executions = <<>>
    /\ tsdata = NotRun /\ timezone = "None" /\ converted = NotRun /\ reconverted = NotRun
    /\ LaterIdle

\* flatten(json_data, sep='_', fill=fill)
FlattenCall ==
    /\ flattened.type = "not run"
    /\ flattened' = flatten(json_data, "_", fill)
    /\ UNCHANGED << json_data, fill, reflattened, vars, threadVars, timestampVars, laterVars >>

\* flatten(flatten(json_data, fill=fill), fill=fill)
FlattenAgain ==
    /\ flattened.type = "record"
    /\ reflattened.type = "not run"
    /\ reflattened' = flatten(ObjectOf(flattened), "_", fill)
    /\ UNCHANGED << json_data, fill, flattened, vars, threadVars, timestampVars, laterVars >>

FlattenNext == FlattenCall \/ FlattenAgain

FlattenSpec == FlattenInit /\ [][FlattenNext]_flattenVars

\* ------------------------------------------------------- claims on flatten
Flattened == flattened.type = "record"

\* What flatten returns for the same argument without fill.
Unfilled == flatten(json_data, "_", FALSE)

ColumnLengths(record) == { Len(record.data[k]) : k \in DOMAIN record.data }

\* The lengths of the arrays of a JSON value that flatten turns into columns
\* (those reached through objects only).
RECURSIVE ArrayLengths(_)
ArrayLengths(obj) ==
    IF obj.type = "object"
    THEN UNION { ArrayLengths(obj.values[i]) : i \in DOMAIN obj.values }
    ELSE IF obj.type = "array" THEN { Len(obj.values) }
    ELSE {}

\* C12: flatten with fill=True returns the record of fill=False, except that,
\* when the longest column has length L > 1, every column of length exactly 1
\* is L repetitions of its single value; columns of length 0 or above 1 are
\* the same, and so are the column names.
C12_FillBroadcastsSingles ==
    (Flattened /\ fill) =>
        LET L == MaxOf(ColumnLengths(Unfilled))
        IN /\ flattened.keys = Unfilled.keys
           /\ DOMAIN flattened.data = DOMAIN Unfilled.data
           /\ \A k \in DOMAIN Unfilled.data :
                IF Len(Unfilled.data[k]) = 1 /\ L > 1
                THEN flattened.data[k] = Repeat(Unfilled.data[k][1], L)
                ELSE flattened.data[k] = Unfilled.data[k]

\* {"a": 1, "a_b": [{"b": 1, "v": 1}, {"b": 1}]} with fill=True gave
\* {"a": [1, 1], "a_b_b": [1, 1], "a_b_v": [1, None]}.
C12_Witness ==
    /\ fill
    /\ json_data = Object(<<"a", "a_b">>,
                          << Scalar("1"),
                             Array(<< Object(<<"b", "v">>, << Scalar("1"), Scalar("1") >>),
                                      Object(<<"b">>, << Scalar("1") >>) >>) >>)
    /\ Flattened
    /\ flattened.keys = <<"a", "a_b_b", "a_b_v">>
    /\ flattened.data["a"] = << Scalar("1"), Scalar("1") >>
    /\ flattened.data["a_b_b"] = << Scalar("1"), Scalar("1") >>
    /\ flattened.data["a_b_v"] = << Scalar("1"), None >>

\* C13, as claimed: after flatten with fill=True all columns have the same
\* length, except columns of length 0 (those of an empty source array).
C13_AllColumnsRowCount ==
    (Flattened /\ fill) =>
        \A j, k \in DOMAIN flattened.data :
            \/ Len(flattened.data[j]) = Len(flattened.data[k])
            \/ Len(flattened.data[j]) = 0
            \/ Len(flattened.data[k]) = 0

\* C13, amended: after flatten with fill=True every column has the length of
\* the longest column (the row count), except a column of an empty source
\* array, which has length 0, and a column of a source array of more than
\* one item, which has the length of that array.
C13_RowCountOrOwnArray ==
    (Flattened /\ fill) =>
        LET L == MaxOf(ColumnLengths(flattened))
        IN \A k \in DOMAIN flattened.data :
             \/ Len(flattened.data[k]) = L
             \/ /\ Len(flattened.data[k]) # 1
                /\ Len(flattened.data[k]) \in ArrayLengths(json_data)
                /\ Len(flattened.data[k]) = Len(Unfilled.data[k])

\* Arrays of two and of three items were flattened with fill=True: their
\* columns have two and three entries.
C13_Witness ==
    /\ fill /\ Flattened
    /\ ArrayLengths(json_data) = {2, 3}
    /\ ColumnLengths(flattened) = {2, 3}

\* The dicts among the values of the top-level keys: lists of N >= 1 dicts.
IsDictList(obj) ==
    /\ obj.type = "array"
    /\ obj.values # <<>>
    /\ \A i \in DOMAIN obj.values : obj.values[i].type = "object"

\* C14: for an array of N objects at path p there is one column p_k for
\* every key k of any item; it has length N and its i-th entry is the i-th
\* item's value for k, or null where the item lacks k.
C14_DictListColumnsAligned ==
    Flattened =>
        \A i \in DOMAIN json_data.keys :
            LET p == json_data.keys[i]
                list == json_data.values[i]
            IN IsDictList(list) =>
                 \A n \in DOMAIN list.values :
                   \A j \in DOMAIN list.values[n].keys :
                     LET k == list.values[n].keys[j]
                         name == p \o "_" \o k
                     IN /\ name \in DOMAIN flattened.data
                        /\ Len(flattened.data[name]) = Len(list.values)
                        /\ \A m \in DOMAIN list.values :
                             flattened.data[name][m] =
                               IF \E x \in DOMAIN list.values[m].keys : list.values[m].keys[x] = k
                               THEN Get(list.values[m], k) ELSE None

\* The column names flatten assigns for the argument, one per assignment.
AssignedNames ==
    LET assignments == FlattenRecursive(json_data, "", "_")
    IN [i \in DOMAIN assignments |-> assignments[i][1]]

\* C15: columns made for different keys of the input never get the same
\* name, so none overwrites another, and every scalar and every array of the
\* input has its column in the record.
C15_NoNameCollision ==
    Flattened =>
        /\ IsInjective(AssignedNames)
        /\ \A i \in DOMAIN json_data.keys :
             LET p == json_data.keys[i]
                 value == json_data.values[i]
             IN /\ value.type = "scalar" =>
                     /\ p \in DOMAIN flattened.data
                     /\ Range(flattened.data[p]) = {value}
                /\ value.type = "array" =>
                     \/ /\ p \in DOMAIN flattened.data
                        /\ Range(flattened.data[p]) = Range(value.values)
                     \/ /\ IsDictList(value)
                        /\ \E k \in {"b", "v"} : (p \o "_" \o k) \in DOMAIN flattened.data

\* C16: an empty array at path p gives the column p holding the empty
\* sequence, with fill=True and with fill=False.
C16_EmptyArrayColumn ==
    Flattened =>
        \A i \in DOMAIN json_data.keys :
            json_data.values[i] = Array(<<>>) =>
                /\ json_data.keys[i] \in DOMAIN flattened.data
                /\ flattened.data[json_data.keys[i]] = <<>>

\* An object whose values are all scalars.
IsFlat(obj) == \A i \in DOMAIN obj.values : obj.values[i].type = "scalar"

\* C17: for an object x whose values are all scalars,
\* flatten(flatten(x)) = flatten(x), with the same fill in both.
C17_FlattenTwice ==
    (IsFlat(json_data) /\ reflattened.type = "record") =>
        /\ reflattened.keys = flattened.keys
        /\ reflattened.data = flattened.data

\* {"a": 1, "a_b": null} was flattened twice with fill=True.
C17_Witness ==
    /\ fill
    /\ json_data = Object(<<"a", "a_b">>, << Scalar("1"), None >>)
    /\ reflattened.type = "record"
    /\ reflattened.data["a"] = << Scalar("1") >>
    /\ reflattened.data["a_b"] = << None >>

\* ================================================= convert_dict_timestamps
\* utils.convert_dict_timestamps over the JSON values defined for flatten.
\* The scalar "0" is the int 0; "x" is a str; "None" is None.
MaxKeys == 2        \* keys of one dict given to convert_dict_timestamps

\* str.lower(), letter by letter.
LowerChar(ch) ==
    CASE ch = "A" -> "a" [] ch = "B" -> "b" [] ch = "C" -> "c" [] ch = "D" -> "d"
      [] ch = "E" -> "e" [] ch = "F" -> "f" [] ch = "G" -> "g" [] ch = "H" -> "h"
      [] ch = "I" -> "i" [] ch = "J" -> "j" [] ch = "K" -> "k" [] ch = "L" -> "l"
      [] ch = "M" -> "m" [] ch = "N" -> "n" [] ch = "O" -> "o" [] ch = "P" -> "p"
      [] ch = "Q" -> "q" [] ch = "R" -> "r" [] ch = "S" -> "s" [] ch = "T" -> "t"
      [] ch = "U" -> "u" [] ch = "V" -> "v" [] ch = "W" -> "w" [] ch = "X" -> "x"
      [] ch = "Y" -> "y" [] ch = "Z" -> "z" [] OTHER -> ch

\* A plausible slip: the key is compared as it is spelled.
Mutant_Lower(str) == str

RECURSIVE Lower(_)
Lower(str) ==
    IF str = "" THEN ""
    ELSE LowerChar(SubSeq(str, 1, 1)) \o Lower(SubSeq(str, 2, Len(str)))

\* term in key_lower
Contains(str, term) ==
    \E i \in 1..(Len(str) - Len(term) + 1) : SubSeq(str, i, i + Len(term) - 1) = term

\* _is_timestamp_key
IsTimestampKey(key) ==
    LET key_lower == Lower(key)
    IN \E term \in {"timestamp", "_start", "_end"} : Contains(key_lower, term)

\* isinstance(value, (int, float))
IsNumber(value) == value.type = "scalar" /\ value.v \in {"0"}

\* _convert_unix_to_iso8601 of the int 0, in a process whose local zone is
\* UTC: strftime('%Y-%m-%dT%H:%M:%SZ') without a zone, isoformat() in the zone.
ConvertUnixToIso8601(unix_timestamp, target_timezone) ==
    IF target_timezone = "America/Phoenix"
    THEN Scalar("1969-12-31T17:00:00-07:00")
    ELSE Scalar("1970-01-01T00:00:00Z")

\* "if timezone:" and "if target_timezone:": None and "" are not a zone.
ZoneGiven(tz) == tz \notin {"None", ""}

\* _process_timestamp_value
ProcessTimestampValue(value, target_timezone) ==
    IF IsNumber(value) THEN ConvertUnixToIso8601(value, target_timezone)
    ELSE IF value.type = "array"
    THEN Array([i \in DOMAIN value.values |->
                  IF IsNumber(value.values[i])
                  THEN ConvertUnixToIso8601(value.values[i], target_timezone)
                  ELSE value.values[i]])
    ELSE value

\* result[key] = value on a dict: a new key goes last, a key already there
\* keeps its place and gets the new value.
SetItem(d, key, value) ==
    IF \E i \in DOMAIN d.keys : d.keys[i] = key
    THEN Object(d.keys, [i \in DOMAIN d.keys |-> IF d.keys[i] = key THEN value ELSE d.values[i]])
    ELSE Object(Append(d.keys, key), Append(d.values, value))

\* Lines 307-320: the keys of d that _is_timestamp_key accepts, in order.
TimestampKeys(d, result) == SelectSeq(d.keys, IsTimestampKey)

\* Lines 323-333: the second pass, from the i-th timestamp key on.
RECURSIVE Annotate(_, _, _, _)
Annotate(result, timestamp_keys, i, tz) ==
    IF i > Len(timestamp_keys) THEN result
    ELSE LET key == timestamp_keys[i]
             value == Get(result, key)
             utc == SetItem(result, key \o "_iso8601", ProcessTimestampValue(value, "None"))
             both == IF ZoneGiven(tz)
                     THEN SetItem(utc, key \o "_iso8601_tz", ProcessTimestampValue(value, tz))
                     ELSE utc
         IN Annotate(both, timestamp_keys, i + 1, tz)

\* _process_dict and _process_list
RECURSIVE ProcessDict(_, _)
RECURSIVE ProcessList(_, _)
ProcessDict(d, tz) ==
    LET first == Object(d.keys,
                        [i \in DOMAIN d.keys |->
                           IF d.values[i].type = "object" THEN ProcessDict(d.values[i], tz)
                           ELSE IF d.values[i].type = "array" THEN ProcessList(d.values[i], tz)
                           ELSE d.values[i]])
    IN Annotate(first, TimestampKeys(d, first), 1, tz)

ProcessList(lst, tz) ==
    Array([i \in DOMAIN lst.values |->
             IF lst.values[i].type = "object" THEN ProcessDict(lst.values[i], tz)
             ELSE IF lst.values[i].type = "array" THEN ProcessList(lst.values[i], tz)
             ELSE lst.values[i]])

\* Lines 349-355
convert_dict_timestamps(data_, tz) ==
    IF data_.type = "object" THEN ProcessDict(data_, tz)
    ELSE IF data_.type = "array" THEN ProcessList(data_, tz)
    ELSE data_

\* -------------------------------------- inputs of convert_dict_timestamps
\* Keys the heuristic accepts ("timestamp", "Sleep_Start", "x_END", and a key
\* spelled like an annotation) and keys it does not.
TimestampKeyNames ==
    {"timestamp", "Sleep_Start", "x_END", "timestamp_iso8601", "started_flag", "beststart"}

\* The values of a key: an int, a str, None, lists of them, a dict with a
\* timestamp key, and a list holding a dict and a list.
TimestampValues ==
    { Scalar("0"), Scalar("x"), None,
      Array(<<>>), Array(<< Scalar("0"), Scalar("x") >>),
      Object(<<"timestamp">>, << Scalar("0") >>),
      Array(<< Object(<<"x_END">>, << Scalar("0") >>), Array(<< Scalar("0") >>) >>) }

\* The dicts of up to n keys.
TimestampInputs(n) ==
    UNION { { Object(ks, vs) : vs \in SeqsOfLen(TimestampValues, Len(ks)) }
            : ks \in { k \in SeqsUpTo(TimestampKeyNames, n) : IsInjective(k) } }

Zones == {"None", "America/Phoenix"}

TimestampInit ==
    /\ tsdata \in TimestampInputs(MaxKeys)
    /\ timezone \in Zones
    /\ converted = NotRun
    /\ reconverted = NotRun
    /\ cacheFiles = [n \in CacheNames |-> NoFile]
    /\ exec = NoExecution /\ pc = "idle" /\ call = NoCall /\ executionId = 0
    /\ state = "None" /\ frame = EmptyFrame /\ nextToken = NoToken
    /\ outcome = NoOutcome /\ nExecutions = 0 /\ log = <<>> /\ filename = NoName
    /\ cacheBefore = [n \in CacheNames |-> NoFile]
    /\ written = [q \in Queries |-> NotWritten] /\ prevTouch = NoTouch
    /\ threads = <<>> /\ executions = <<>>
    /\ json_data = NotRun /\ fill = FALSE /\ flattened = NotRun /\ reflattened = NotRun
    /\ LaterIdle

\* convert_dict_timestamps(data, timezone)
ConvertCall ==
    /\ converted.type = "not run"
    /\ converted' = convert_dict_timestamps(tsdata, timezone)
    /\ UNCHANGED << tsdata, timezone, reconverted, vars, threadVars, flattenVars, laterVars >>

\* convert_dict_timestamps(convert_dict_timestamps(data, timezone), timezone)
ConvertAgain ==
    /\ converted.type # "not run"
    /\ reconverted.type = "not run"
    /\ reconverted' = convert_dict_timestamps(converted, timezone)
    /\ UNCHANGED << tsdata, timezone, converted, vars, threadVars, flattenVars, laterVars >>

TimestampNext == ConvertCall \/ ConvertAgain

TimestampSpec == TimestampInit /\ [][TimestampNext]_timestampVars

\* ----------------------------------- claims on convert_dict_timestamps
Converted == converted.type # "not run"

EndsWith(str, suffix) ==
    Len(str) >= Len(suffix) /\ SubSeq(str, Len(str) - Len(suffix) + 1, Len(str)) = suffix

\* out is in with nothing but "_iso8601" and "_iso8601_tz" keys added, at
\* every nesting level.
RECURSIVE OnlyAdds(_, _)
OnlyAdds(in, out) ==
    IF in.type = "scalar" THEN out = in
    ELSE IF in.type = "array"
    THEN /\ out.type = "array"
         /\ Len(out.values) = Len(in.values)
         /\ \A i \in DOMAIN in.values : OnlyAdds(in.values[i], out.values[i])
    ELSE /\ out.type = "object"
         /\ \A i \in DOMAIN in.keys :
              /\ \E j \in DOMAIN out.keys : out.keys[j] = in.keys[i]
              /\ OnlyAdds(in.values[i], Get(out, in.keys[i]))
         /\ \A j \in DOMAIN out.keys :
              \/ \E i \in DOMAIN in.keys : in.keys[i] = out.keys[j]
              \/ EndsWith(out.keys[j], "_iso8601")
              \/ EndsWith(out.keys[j], "_iso8601_tz")

\* C18: convert_dict_timestamps only adds: every key of the input, at every
\* nesting level, is in the output with its original value, and the output
\* differs from the input only by added _iso8601 and _iso8601_tz keys.
C18_PurelyAdditive == Converted => OnlyAdds(tsdata, converted)

\* C19: applying convert_dict_timestamps to its own output returns that
\* output unchanged, for every input and zone.
C19_SecondPassChangesNothing ==
    reconverted.type # "not run" => reconverted = converted

\* The keys among TimestampKeyNames whose lower-cased name contains
\* "timestamp", "_start" or "_end".
MatchingNames == {"timestamp", "Sleep_Start", "x_END", "timestamp_iso8601"}

\* The keys one pass must leave in the dict made from d.
ExpectedKeys(d, tz) ==
    Range(d.keys)
    \cup { k \o "_iso8601" : k \in Range(d.keys) \cap MatchingNames }
    \cup (IF tz # "None"
          THEN { k \o "_iso8601_tz" : k \in Range(d.keys) \cap MatchingNames } ELSE {})

\* (A value that the pass has replaced by an annotation is not looked into.)
RECURSIVE KeysAsExpected(_, _, _)
KeysAsExpected(in, out, tz) ==
    IF out.type # in.type \/ Len(out.values) < Len(in.values) THEN TRUE
    ELSE IF in.type = "object"
    THEN /\ Range(out.keys) = ExpectedKeys(in, tz)
         /\ IsInjective(out.keys)
         /\ \A i \in DOMAIN in.keys :
              KeysAsExpected(in.values[i], Get(out, in.keys[i]), tz)
    ELSE IF in.type = "array"
    THEN \A i \in DOMAIN in.values : KeysAsExpected(in.values[i], out.values[i], tz)
    ELSE TRUE

\* C20: in one pass over a dictionary the keys added are exactly <k>_iso8601
\* for each input key k whose lower-cased name contains "timestamp", "_start"
\* or "_end", and <k>_iso8601_tz for the same keys exactly when a zone is
\* given; "started_flag" and "beststart" get none, and a key added by the
\* pass is not annotated in that pass.
C20_KeysAddedByOnePass == Converted => KeysAsExpected(tsdata, converted, timezone)

\* {"Sleep_Start": [0, "x"], "started_flag": 0} with the zone America/Phoenix
\* gave the two annotations of Sleep_Start and nothing else.
C20_Witness ==
    /\ tsdata = Object(<<"Sleep_Start", "started_flag">>,
                       << Array(<< Scalar("0"), Scalar("x") >>), Scalar("0") >>)
    /\ timezone = "America/Phoenix"
    /\ Converted
    /\ converted.keys = <<"Sleep_Start", "started_flag",
                          "Sleep_Start_iso8601", "Sleep_Start_iso8601_tz">>
    /\ Get(converted, "Sleep_Start_iso8601") =
         Array(<< Scalar("1970-01-01T00:00:00Z"), Scalar("x") >>)
    /\ Get(converted, "Sleep_Start_iso8601_tz") =
         Array(<< Scalar("1969-12-31T17:00:00-07:00"), Scalar("x") >>)

\* ============================================ further claims on execQuery
\* C26: in a call that did not hit the cache the remote calls come in this
\* order: one start_query_execution, first and only; then the polls of
\* get_query_execution for the execution id it returned; then the
\* get_query_results requests (and the download) for that same id, none of
\* them before a poll has reported SUCCEEDED, FAILED or CANCELLED and no poll
\* after them.
C26_RemoteCallOrder ==
    log # <<>> =>
        /\ log[1].op = "start_query_execution"
        /\ \A j \in 2..Len(log) :
              /\ log[j].op # "start_query_execution"
              /\ log[j].id = log[1].id
              /\ log[j].id = executionId
        /\ \A j \in DOMAIN log :
              log[j].op \in {"get_query_results", "download_file"} =>
                  /\ j >= 3
                  /\ log[2].op = "get_query_execution"
                  /\ log[2].rows[1][1] \in Terminal
                  /\ \A k \in 3..Len(log) : log[k].op # "get_query_execution"

\* A call that polled to SUCCEEDED and then fetched two pages.
C26_Witness ==
    /\ pc = "done"
    /\ outcome.kind = "returned"
    /\ Len(log) = 4
    /\ log[2].op = "get_query_execution"
    /\ log[2].rows[1][1] = "SUCCEEDED"
    /\ log[3].op = "get_query_results"
    /\ log[4].op = "get_query_results"
    /\ log[4].token # NoToken

\* C27: when a call on a client with offlineCache returned a frame, the file
\* of the query text exists and holds that frame: it is the frame as to_csv
\* writes it, or read_csv reads the frame from it (the cache hit).
C27_CacheHoldsReturned ==
    ( /\ pc = "done"
      /\ outcome.kind = "returned"
      /\ call.self.offlineCache )
    => LET file == cacheFiles[cacheFileName(call.queryString)]
       IN /\ file # NoFile
          /\ \/ file = to_csv(outcome.frame)
             \/ ~ReadCsvRaises(file) /\ read_csv(file) = outcome.frame

\* ================================================================== Needle
\* needle.Needle: execQuery hands the query to the athena object self.db that
\* __init__ built (lines 107-125).
\* The athena object of a Needle: method 'mdh' gives it an s3_location,
\* method 'aws' leaves the default None.
NeedleDb(method, offlineCache) ==
    [database |-> "db1", offlineCache |-> offlineCache,
     s3_location |-> IF method = "mdh" THEN "s3://bucket/results" ELSE "None"]

Needles ==
    { [method |-> m, offlineCache |-> o, db |-> NeedleDb(m, o)]
        : m \in {"aws", "mdh"}, o \in BOOLEAN }

\* bool(v) of an int, as "if self.offlineCache and cached" takes it.
Truthy(v) == v # 0

\* Needle.execQuery, line 200: self.db.execQuery(queryString, queryParams,
\* defaultTimeout).  The third positional parameter of athena.execQuery is
\* `cached`; defaultTimeout and s3Transfer keep their defaults.
NeedleCall(needle, queryString, defaultTimeout) ==
    [self |-> needle.db, queryString |-> queryString,
     cached |-> Truthy(defaultTimeout), defaultTimeout |-> 60, s3Transfer |-> FALSE]

\* Needle.execQuery(queryString, defaultTimeout=...)
NeedleExecQuery(needle, queryString, defaultTimeout) ==
    \/ ExecQueryFromCache(NeedleCall(needle, queryString, defaultTimeout))
    \/ ExecQuerySubmit(NeedleCall(needle, queryString, defaultTimeout))

\* Calls come through Needle only, which never asks for s3Transfer.
NeedleNext ==
    \/ \E needle \in Needles, queryString \in Queries, defaultTimeout \in Timeouts :
          NeedleExecQuery(needle, queryString, defaultTimeout)
    \/ AthenaAdvance
    \/ GetQueryExecution
    \/ GetQueryExecutionFails
    \/ QueryResults

NeedleSpec == Init /\ [][NeedleNext]_vars

\* C28: every call of Needle.execQuery submits the query to the service (its
\* first remote call is start_query_execution), also when a cache file for
\* the query text exists: no call through Needle is served from the cache.
C28_NeedleAlwaysSubmits ==
    pc # "idle" => (log # <<>> /\ log[1].op = "start_query_execution")

\* ================================================= queryResults on its own
\* The earlier parts, pinned while a later part runs.
earlierVars == << vars, threadVars, flattenVars, timestampVars >>

EarlierIdle ==
    /\ cacheFiles = [n \in CacheNames |-> NoFile]
    /\ exec = NoExecution /\ pc = "idle" /\ call = NoCall /\ executionId = 0
    /\ state = "None" /\ frame = EmptyFrame /\ nextToken = NoToken
    /\ outcome = NoOutcome /\ nExecutions = 0 /\ log = <<>> /\ filename = NoName
    /\ cacheBefore = [n \in CacheNames |-> NoFile]
    /\ written = [q \in Queries |-> NotWritten] /\ prevTouch = NoTouch
    /\ threads = <<>> /\ executions = <<>>
    /\ json_data = NotRun /\ fill = FALSE /\ flattened = NotRun /\ reflattened = NotRun
    /\ tsdata = NotRun /\ timezone = "None" /\ converted = NotRun /\ reconverted = NotRun

\* athena.queryResults called by a user of the class (it is a public method),
\* for the first page of an execution.  The default of `columnNames` is one
\* list object, evaluated when the def statement runs and shared by every
\* call on every athena object that does not pass the argument.
QueryResultsInit ==
    /\ columnNamesDefault = <<>>
    /\ queryResultsCall = NotRun
    /\ EarlierIdle
    /\ HostIdle
    /\ ValidateIdle
    /\ UploadIdle
    /\ MdhIdle

\* queryResults, lines 168-173: "columnNames += [c[k]]" extends the list
\* object bound to columnNames in place, by the labels of the first row.
ColumnNamesAfter(columnNames, data) ==
    IF Len(data) > 0 /\ Len(columnNames) <= 0 THEN columnNames \o data[1] ELSE columnNames

\* queryResults(executionId) and queryResults(executionId, columnNames=[]) on
\* the client `self`; the service answers with the first k rows of `result`.
QueryResultsDirect(self, result, k, passed) ==
    LET raw == RawRows(result)
        data == SubSeq(raw, 1, k)
        resultToken == IF k < Len(raw) THEN k ELSE NoToken
        columnNames == IF passed THEN <<>> ELSE columnNamesDefault
        r == QueryResultsBody(data, resultToken, columnNames)
    IN /\ queryResultsCall' = [type |-> "call", self |-> self, data |-> data,
                               passed |-> passed, ret |-> r.ret, frame |-> r.frame]
       /\ columnNamesDefault' = IF passed THEN columnNamesDefault
                                ELSE ColumnNamesAfter(columnNamesDefault, data)
       /\ UNCHANGED << earlierVars, hostVars, validateVars, uploadVars, mdhVars >>

QueryResultsNext ==
    \E self \in Clients, result \in ResultSets, passed \in BOOLEAN :
        \E k \in PageSizes(RawRows(result), 0) :
            QueryResultsDirect(self, result, k, passed)

QueryResultsSpec == QueryResultsInit /\ [][QueryResultsNext]_queryResultsVars

\* C25: a call of queryResults without the columnNames argument, answered
\* with at least one row, takes its labels from the first row of its own
\* response (and its data rows from the rows after it), whatever calls came
\* before it on this or another client.
C25_LabelsFromOwnResponse ==
    ( /\ queryResultsCall.type = "call"
      /\ ~queryResultsCall.passed
      /\ Len(queryResultsCall.data) > 0 )
    => /\ queryResultsCall.ret = "tuple"
       /\ queryResultsCall.frame.columns = queryResultsCall.data[1]
       /\ NRows(queryResultsCall.frame) = Len(queryResultsCall.data) - 1

\* ============================= convert_dict_timestamps on a host with a zone
\* _convert_unix_to_iso8601 and _process_timestamp_value with the time
\* arithmetic done: the zone of the host process, the zone asked for, and the
\* elements Python takes for numbers.  (ConvertUnixToIso8601 above is this
\* conversion for the int 0 on a host whose zone is UTC.)
MaxElements == 2     \* elements of the list under the key

\* Scalars by their Python text: ints, True, float('nan'), float('inf'), a
\* str, None.
PyType(v) ==
    CASE v \in {"0", "86399", "-1", "1672531200"} -> "int"
      [] v = "True" -> "bool"
      [] v \in {"nan", "inf"} -> "float"
      [] v = "None" -> "NoneType"
      [] OTHER -> "str"

\* The number an int or a bool stands for (True is 1).
NumberOf(v) ==
    CASE v = "0" -> 0 [] v = "86399" -> 86399 [] v = "-1" -> 0 - 1
      [] v = "1672531200" -> 1672531200 [] v = "True" -> 1

\* isinstance(value, (int, float)); bool is a subclass of int.
IsIntOrFloat(value) ==
    value.type = "scalar" /\ PyType(value.v) \in {"int", "bool", "float"}

\* Zones the zone database knows, with their offset from UTC in seconds
\* (none of the three has daylight saving time).
KnownZones == {"UTC", "America/Phoenix", "Asia/Kolkata"}

UtcOffset(zone) ==
    CASE zone = "UTC" -> 0
      [] zone = "America/Phoenix" -> 0 - 25200
      [] zone = "Asia/Kolkata" -> 19800

Digit(n) == <<"0", "1", "2", "3", "4", "5", "6", "7", "8", "9">>[n + 1]

Pad2(n) == Digit(n \div 10) \o Digit(n % 10)

Pad4(n) == Pad2(n \div 100) \o Pad2(n % 100)

\* The civil date and time of a count of seconds since 1970-01-01T00:00:00
\* (proleptic Gregorian calendar, as the datetime module computes it).
Civil(seconds) ==
    LET days == seconds \div 86400
        rest == seconds % 86400
        z == days + 719468
        era == z \div 146097
        doe == z - era * 146097
        yoe == (doe - doe \div 1460 + doe \div 36524 - doe \div 146096) \div 365
        doy == doe - (365 * yoe + yoe \div 4 - yoe \div 100)
        mp == (5 * doy + 2) \div 153
        month == IF mp < 10 THEN mp + 3 ELSE mp - 9
    IN [year |-> yoe + era * 400 + (IF month <= 2 THEN 1 ELSE 0),
        month |-> month,
        day |-> doy - (153 * mp + 2) \div 5 + 1,
        hour |-> rest \div 3600,
        minute |-> (rest % 3600) \div 60,
        second |-> rest % 60]

\* '%Y-%m-%dT%H:%M:%S' of a civil time; isoformat() gives the same text for
\* a time without microseconds.
CivilText(c) ==
    Pad4(c.year) \o "-" \o Pad2(c.month) \o "-" \o Pad2(c.day) \o "T"
    \o Pad2(c.hour) \o ":" \o Pad2(c.minute) \o ":" \o Pad2(c.second)

\* The offset as isoformat() writes it: +HH:MM or -HH:MM.
OffsetText(offset) ==
    LET a == IF offset < 0 THEN 0 - offset ELSE offset
    IN (IF offset < 0 THEN "-" ELSE "+") \o Pad2(a \div 3600) \o ":" \o Pad2((a % 3600) \div 60)

Raised(error) == [type |-> "raised", error |-> error]

\* datetime.fromtimestamp(unix_timestamp): a naive datetime holding the civil
\* time of the instant in the zone of the host; ValueError for nan,
\* OverflowError for a value outside the range of time_t.
FromTimestamp(host, v) ==
    IF v = "nan" THEN Raised("ValueError")
    ELSE IF v = "inf" THEN Raised("OverflowError")
    ELSE [type |-> "naive", seconds |-> NumberOf(v) + UtcOffset(host)]

\* _convert_unix_to_iso8601 on a host: the text returned, or the error that
\* leaves the function.  The except clause names ValueError, TypeError and
\* OSError; pytz.UnknownTimeZoneError is a KeyError and OverflowError an
\* ArithmeticError.  astimezone() reads the naive datetime as host time.
convert_unix_to_iso8601(host, unix_timestamp, target_timezone) ==
    LET dt_utc == FromTimestamp(host, unix_timestamp)
    IN IF dt_utc.type = "raised"
       THEN IF dt_utc.error \in {"ValueError", "TypeError", "OSError"}
            THEN Scalar(unix_timestamp) ELSE dt_utc
       ELSE IF ZoneGiven(target_timezone)
       THEN IF target_timezone \notin KnownZones THEN Raised("UnknownTimeZoneError")
            ELSE Scalar(CivilText(Civil(dt_utc.seconds - UtcOffset(host)
                                        + UtcOffset(target_timezone)))
                        \o OffsetText(UtcOffset(target_timezone)))
       ELSE Scalar(CivilText(Civil(dt_utc.seconds)) \o "Z")

\* _process_timestamp_value on a host; the first error of the list
\* comprehension leaves it.
process_timestamp_value(host, value, target_timezone) ==
    IF IsIntOrFloat(value) THEN convert_unix_to_iso8601(host, value.v, target_timezone)
    ELSE IF value.type = "array"
    THEN LET each == [i \in DOMAIN value.values |->
                        IF IsIntOrFloat(value.values[i])
                        THEN convert_unix_to_iso8601(host, value.values[i].v, target_timezone)
                        ELSE value.values[i]]
             bad == { i \in DOMAIN each : each[i].type = "raised" }
         IN IF bad = {} THEN Array(each)
            ELSE each[CHOOSE i \in bad : \A j \in bad : i <= j]
    ELSE value

\* convert_dict_timestamps({"timestamp": value}, timezone) on a host: the
\* second pass of _process_dict for the one key (the first pass leaves these
\* values as they are: their nested dicts have no timestamp key).
convert_on_host(host, value, tz) ==
    LET iso8601 == process_timestamp_value(host, value, "None")
        iso8601_tz == process_timestamp_value(host, value, tz)
    IN IF iso8601.type = "raised" THEN iso8601
       ELSE IF ~ZoneGiven(tz)
       THEN Object(<<"timestamp", "timestamp_iso8601">>, << value, iso8601 >>)
       ELSE IF iso8601_tz.type = "raised" THEN iso8601_tz
       ELSE Object(<<"timestamp", "timestamp_iso8601", "timestamp_iso8601_tz">>,
                   << value, iso8601, iso8601_tz >>)

\* ------------------------------------------------------------------ inputs
HostElements ==
    { Scalar(v) : v \in {"0", "86399", "-1", "1672531200", "True", "nan", "inf", "x", "None"} }
    \cup { Array(<< Scalar("0") >>), Object(<<"a">>, << Scalar("0") >>) }

\* The value of the key: an element, or a list of up to n elements.
HostValues(n) == HostElements \cup { Array(items) : items \in SeqsUpTo(HostElements, n) }

\* Zone arguments: none, "", two zones the database knows and one it does not.
TargetZones == {"None", "", "America/Phoenix", "UTC", "Mars/Olympus"}

HostInit ==
    /\ localZone \in KnownZones
    /\ tzValue \in HostValues(MaxElements)
    /\ tzTarget \in TargetZones
    /\ tzReturn = NotRun
    /\ EarlierIdle
    /\ QueryResultsIdle
    /\ ValidateIdle
    /\ UploadIdle
    /\ MdhIdle

\* convert_dict_timestamps({"timestamp": tzValue}, tzTarget)
HostConvert ==
    /\ tzReturn = NotRun
    /\ tzReturn' = convert_on_host(localZone, tzValue, tzTarget)
    /\ UNCHANGED << localZone, tzValue, tzTarget, earlierVars, queryResultsVars,
                    validateVars, uploadVars, mdhVars >>

HostNext == HostConvert

HostSpec == HostInit /\ [][HostNext]_hostVars

\* ------------------------------------ claims on the conversion of elements
HostReturned == tzReturn.type = "object"

\* The elements of the value under the key: the list's, or the value itself.
HostSource == IF tzValue.type = "array" THEN tzValue.values ELSE << tzValue >>

\* The elements of an annotation, laid out like HostSource.
HostAnnotation(key) ==
    LET out == Get(tzReturn, key)
    IN IF tzValue.type = "array" THEN out.values ELSE << out >>

IsInt(value) == value.type = "scalar" /\ PyType(value.v) = "int"

\* The UTC civil time of the ints used, from a calendar.
UtcText(v) ==
    CASE v = "0" -> "1970-01-01T00:00:00Z"
      [] v = "86399" -> "1970-01-01T23:59:59Z"
      [] v = "-1" -> "1969-12-31T23:59:59Z"
      [] v = "1672531200" -> "2023-01-01T00:00:00Z"

\* C21: for an int element t of the key, the _iso8601 value is the UTC civil
\* time of t seconds after the epoch, YYYY-MM-DDTHH:MM:SSZ, whatever the
\* zone of the host process.
C21_UtcWhateverHost ==
    HostReturned =>
        \A i \in DOMAIN HostSource :
            IsInt(HostSource[i]) =>
                HostAnnotation("timestamp_iso8601")[i] = Scalar(UtcText(HostSource[i].v))

\* C22: convert_dict_timestamps never raises, for any value and any zone
\* string; an element that cannot be converted (nan) is replaced by its
\* string form, and the int elements next to it are still converted.
C22_NeverRaises ==
    /\ tzReturn.type # "raised"
    /\ HostReturned =>
          \A i \in DOMAIN HostSource :
              /\ HostSource[i] = Scalar("nan") =>
                     HostAnnotation("timestamp_iso8601")[i] = Scalar("nan")
              /\ IsInt(HostSource[i]) =>
                     HostAnnotation("timestamp_iso8601")[i] # HostSource[i]

\* The annotation keys of the dict returned.
AnnotationKeys == { k \in Range(tzReturn.keys) : k # "timestamp" }

\* What an element alone under the key gives for the annotation `key`.
AloneGives(element, key) ==
    process_timestamp_value(localZone, Array(<< element >>),
                            IF key = "timestamp_iso8601" THEN "None" ELSE tzTarget).values[1]

\* C29: for a list under the key, each annotation list has the length of the
\* source list, its position i depends on source position i only, and an
\* element that is no number (a str, None, a bool, a nested list or dict)
\* stands unchanged at its position.
C29_ListPositionwise ==
    (HostReturned /\ tzValue.type = "array") =>
        \A key \in AnnotationKeys :
            LET out == Get(tzReturn, key)
            IN /\ out.type = "array"
               /\ Len(out.values) = Len(tzValue.values)
               /\ \A i \in DOMAIN tzValue.values :
                     LET element == tzValue.values[i]
                     IN IF element.type = "scalar" /\ PyType(element.v) \in {"int", "float"}
                        THEN out.values[i] = AloneGives(element, key)
                        ELSE out.values[i] = element

\* ============================================= validate_sensor_data_schema
\* utils.validate_sensor_data_schema.  The schema document is an asset of the
\* repository; its content is taken from the specification: the shape of one
\* flattened and annotated metric record, whose columns are lists.
\* A schema for a column: a list whose items have one JSON type.
ArrayOf(itemType) == [type |-> "array", items |-> itemType]

SensorDataSchema ==
    [type |-> "object",
     required |-> <<"type">>,
     properties |-> [type |-> ArrayOf("string"),
                     object_values_value |-> ArrayOf("number")]]

\* The JSON type of a value, as jsonschema tells types apart (a bool is no
\* number).
JsonType(value) ==
    IF value.type = "object" THEN "object"
    ELSE IF value.type = "array" THEN "array"
    ELSE CASE PyType(value.v) \in {"int", "float"} -> "number"
           [] PyType(value.v) = "bool" -> "boolean"
           [] PyType(value.v) = "NoneType" -> "null"
           [] OTHER -> "string"

\* The messages of the errors jsonschema finds in an instance: a wrong type,
\* a required property that is missing, a property that does not fit.
Violations(instance, schema) ==
    IF JsonType(instance) # "object" THEN { "instance is not of type 'object'" }
    ELSE { "'" \o schema.required[i] \o "' is a required property" :
             i \in { j \in DOMAIN schema.required :
                       schema.required[j] \notin Range(instance.keys) } }
         \cup { instance.keys[i] \o " is not of type 'array'" :
                  i \in { j \in DOMAIN instance.keys :
                            /\ instance.keys[j] \in DOMAIN schema.properties
                            /\ JsonType(instance.values[j]) # "array" } }
         \cup { instance.keys[i] \o " item is not of type '"
                    \o schema.properties[instance.keys[i]].items \o "'" :
                  i \in { j \in DOMAIN instance.keys :
                            /\ instance.keys[j] \in DOMAIN schema.properties
                            /\ JsonType(instance.values[j]) = "array"
                            /\ \E item \in Range(instance.values[j].values) :
                                 JsonType(item) # schema.properties[instance.keys[j]].items } }

\* An exception with its message.
RaisedWith(error, message) == [type |-> "raised", error |-> error, message |-> message]

\* The classes of an exception, up to Exception.
Bases(error) ==
    CASE error = "ValidationError" -> {"ValidationError", "Exception"}
      [] error = "FileNotFoundError" -> {"FileNotFoundError", "OSError", "Exception"}
      [] error = "JSONDecodeError" -> {"JSONDecodeError", "ValueError", "Exception"}
      [] OTHER -> {error, "Exception"}

\* "except <class>" catches the exception.
Catches(class, raised) == class \in Bases(raised.error)

\* A plausible slip: the missing file is reported as a validation error.
Mutant_LoadSchema(file) ==
    IF file = "missing" THEN RaisedWith("ValidationError", "Schema file not found at: schema_path")
    ELSE IF file = "not json" THEN RaisedWith("JSONDecodeError", "Expecting value")
    ELSE SensorDataSchema

\* Lines 372-376: open and json.load.  FileNotFoundError is raised anew with
\* the path; an error of json.load passes through.
LoadSchema(file) ==
    IF file = "missing" THEN RaisedWith("FileNotFoundError", "Schema file not found at: schema_path")
    ELSE IF file = "not json" THEN RaisedWith("JSONDecodeError", "Expecting value")
    ELSE SensorDataSchema

\* Lines 378-382: jsonschema.validate raises one of the errors found, and it
\* is raised anew with a prefix before its message.
ValidateOutcomes(file, instance) ==
    LET schema == LoadSchema(file)
    IN IF schema.type = "raised" THEN { schema }
       ELSE IF Violations(instance, schema) = {} THEN { [type |-> "returned"] }
       ELSE { RaisedWith("ValidationError", "Sensor data validation failed: " \o message)
                : message \in Violations(instance, schema) }

\* ------------------------------------------------------------------ inputs
\* Columns of a record: lists of strings, of numbers, mixed, empty; and a
\* value that is no list.
ValidateColumns ==
    { Array(<<>>), Array(<< Scalar("x") >>), Array(<< Scalar("0") >>),
      Array(<< Scalar("0"), Scalar("x") >>), Array(<< Scalar("True") >>),
      Array(<< None >>), Scalar("x"), Scalar("0") }

MaxColumns == 3      \* columns of a record given to the validator

ValidateKeys ==
    { ks \in SeqsUpTo({"type", "object_values_value", "object_total"}, MaxColumns) :
        IsInjective(ks) }

ValidateInputs ==
    { Scalar("x"), Array(<<>>) }
    \cup UNION { { Object(ks, vs) : vs \in SeqsOfLen(ValidateColumns, Len(ks)) } : ks \in ValidateKeys }

ValidateInit ==
    /\ schemaFile \in {"present", "not json", "missing"}
    /\ validateArg \in ValidateInputs
    /\ validateOutcome = NotRun
    /\ EarlierIdle
    /\ QueryResultsIdle
    /\ HostIdle
    /\ UploadIdle
    /\ MdhIdle

\* validate_sensor_data_schema(json_data)
ValidateCall ==
    /\ validateOutcome = NotRun
    /\ validateOutcome' \in ValidateOutcomes(schemaFile, validateArg)
    /\ UNCHANGED << schemaFile, validateArg, earlierVars, queryResultsVars, hostVars,
                    uploadVars, mdhVars >>

ValidateNext == ValidateCall

ValidateSpec == ValidateInit /\ [][ValidateNext]_validateVars

\* ---------------------------------------------------------------- the claim
\* The record has the shape of a metric record: a dict with a column "type"
\* of strings and, if it has a column "object_values_value", numbers in it.
IsListOf(value, types) ==
    value.type = "array" /\ \A item \in Range(value.values) : JsonType(item) \in types

ConformsToSchema(record) ==
    /\ record.type = "object"
    /\ "type" \in Range(record.keys)
    /\ IsListOf(Get(record, "type"), {"string"})
    /\ "object_values_value" \in Range(record.keys) =>
           IsListOf(Get(record, "object_values_value"), {"number"})

StartsWith(str, prefix) ==
    Len(str) >= Len(prefix) /\ SubSeq(str, 1, Len(prefix)) = prefix

\* C23: validate_sensor_data_schema returns normally exactly when the schema
\* is there and the record conforms to it; on a mismatch it raises a
\* ValidationError whose message carries the violation; when the schema file
\* is missing it raises FileNotFoundError, which "except ValidationError"
\* does not catch.
C23_ValidateOutcome ==
    validateOutcome # NotRun =>
        /\ validateOutcome.type = "returned"
               <=> (schemaFile = "present" /\ ConformsToSchema(validateArg))
        /\ (schemaFile = "present" /\ ~ConformsToSchema(validateArg)) =>
               /\ validateOutcome.type = "raised"
               /\ validateOutcome.error = "ValidationError"
               /\ StartsWith(validateOutcome.message, "Sensor data validation failed: ")
               /\ Len(validateOutcome.message) > Len("Sensor data validation failed: ")
        /\ schemaFile = "missing" =>
               /\ validateOutcome.type = "raised"
               /\ validateOutcome.error = "FileNotFoundError"
               /\ ~Catches("ValidationError", validateOutcome)

\* A record without the required column "type" was refused, with the
\* violation in the message.
C23_Witness ==
    /\ schemaFile = "present"
    /\ validateArg = Object(<<"object_values_value">>, << Array(<< Scalar("0") >>) >>)
    /\ validateOutcome =
         RaisedWith("ValidationError",
                    "Sensor data validation failed: 'type' is a required property")

\* ======================================================= upload orchestrator
\* uh_upload.UltrahumanDataUploader: process_sns_messages and, per SNS
\* record, _collect_and_upload_participant_data with its loop over the
\* metric records.  The connections are up, every SNS message parses, and
\* get_metrics returns {"data": {"metric_data": [...]}}.
MaxParticipants == 2   \* SNS records of one batch
MaxMetrics == 2        \* metric records of one participant

\* The parameters of utils.flatten_json_to_columns (utils.py:133) and the
\* keywords the orchestrator calls it with (uh_upload.py:180).
FlattenParameters == {"json_data", "fill", "separator"}

FlattenKeywords == {"json_data", "participant_id", "fill"}

\* A call with a keyword the function does not have raises TypeError.
FlattenCallRaises == ~(FlattenKeywords \subseteq FlattenParameters)

\* Line 177: "'object_values' in metric and len(metric['object_values']) <= 0"
EmptyObjectValues(metric) ==
    /\ metric.type = "object"
    /\ "object_values" \in Range(metric.keys)
    /\ Len(Get(metric, "object_values").values) <= 0

\* Lines 180-181: the record flattened with fill=True and annotated (the
\* zone is always the default: the participant dict has no demographics).
ConvertedMetric(metric) ==
    convert_dict_timestamps(ObjectOf(flatten_json_to_columns(metric, TRUE, "_")),
                            "America/Phoenix")

\* Lines 183-189: none of the three sensor columns is there.
NoSensorData(converted_) ==
    /\ Get(converted_, "object_values") = None
    /\ Get(converted_, "object_total") = None
    /\ Get(converted_, "object_values_value") = None

\* pandas.DataFrame.from_dict(converted, orient="columns"): ValueError for
\* columns of different lengths; the frame is empty when it has no rows.
ColumnLengthsOf(converted_) == { Len(converted_.values[i].values) : i \in DOMAIN converted_.values }

\* Metric records: one that fits the schema, one with a value that does
\* not, one with no values, one without sensor columns.
ValidMetric ==
    Object(<<"type", "object_values">>,
           << Scalar("x"), Array(<< Object(<<"value">>, << Scalar("0") >>) >>) >>)

InvalidMetric ==
    Object(<<"type", "object_values">>,
           << Scalar("x"), Array(<< Object(<<"value">>, << Scalar("x") >>) >>) >>)

UploadMetrics ==
    { ValidMetric, InvalidMetric,
      Object(<<"type", "object_values">>, << Scalar("x"), Array(<<>>) >>),
      Object(<<"type">>, << Scalar("x") >>) }

\* The result a participant ends with.
Succeeded == [success |-> TRUE, error |-> ""]

Failed(error) == [success |-> FALSE, error |-> error]

UploadInit ==
    /\ uploadBatch \in SeqsUpTo(SeqsUpTo(UploadMetrics, MaxMetrics), MaxParticipants)
    /\ uploadAt = [participant |-> 1, metric |-> 1]
    /\ uploadWritten = <<>>
    /\ uploadResults = <<>>
    /\ schemaFile \in {"present", "missing"}
    /\ validateArg = NotRun /\ validateOutcome = NotRun
    /\ EarlierIdle
    /\ QueryResultsIdle
    /\ HostIdle
    /\ MdhIdle

\* "continue": on to the next metric record of the participant.
NextMetric ==
    /\ uploadAt' = [uploadAt EXCEPT !.metric = @ + 1]
    /\ UNCHANGED uploadResults

\* The "except Exception" of line 236: the participant ends as failed, and
\* process_sns_messages goes on with the next SNS record.
AbortParticipant(error) ==
    /\ uploadResults' = Append(uploadResults, Failed(error))
    /\ uploadAt' = [participant |-> uploadAt.participant + 1, metric |-> 1]

\* Lines 175-225: the body of "for metric in metrics_data" for one record.
UploadMetric ==
    /\ uploadAt.participant <= Len(uploadBatch)
    /\ uploadAt.metric <= Len(uploadBatch[uploadAt.participant])
    /\ LET metric == uploadBatch[uploadAt.participant][uploadAt.metric]
       IN IF EmptyObjectValues(metric)
          THEN NextMetric /\ UNCHANGED uploadWritten
          ELSE IF FlattenCallRaises
          THEN AbortParticipant("TypeError") /\ UNCHANGED uploadWritten
          ELSE IF NoSensorData(ConvertedMetric(metric))
          THEN NextMetric /\ UNCHANGED uploadWritten
          ELSE \E validated \in ValidateOutcomes(schemaFile, ConvertedMetric(metric)) :
                 IF validated.type = "raised"
                 THEN IF Catches("ValidationError", validated)
                      THEN NextMetric /\ UNCHANGED uploadWritten
                      ELSE AbortParticipant(validated.error) /\ UNCHANGED uploadWritten
                 ELSE IF Cardinality(ColumnLengthsOf(ConvertedMetric(metric))) > 1
                 THEN AbortParticipant("ValueError") /\ UNCHANGED uploadWritten
                 ELSE IF ColumnLengthsOf(ConvertedMetric(metric)) \subseteq {0}
                 THEN NextMetric /\ UNCHANGED uploadWritten
                 ELSE /\ uploadWritten' = Append(uploadWritten,
                                                 << uploadAt.participant, uploadAt.metric >>)
                      /\ NextMetric
    /\ UNCHANGED << uploadBatch, schemaFile, validateArg, validateOutcome,
                    earlierVars, queryResultsVars, hostVars, mdhVars >>

\* Lines 227-241: the loop is over; the participant ends as succeeded (a
\* failure to update the sync date is only logged).
FinishParticipant ==
    /\ uploadAt.participant <= Len(uploadBatch)
    /\ uploadAt.metric > Len(uploadBatch[uploadAt.participant])
    /\ uploadResults' = Append(uploadResults, Succeeded)
    /\ uploadAt' = [participant |-> uploadAt.participant + 1, metric |-> 1]
    /\ UNCHANGED << uploadBatch, uploadWritten, schemaFile, validateArg, validateOutcome,
                    earlierVars, queryResultsVars, hostVars, mdhVars >>

UploadNext == UploadMetric \/ FinishParticipant

UploadSpec == UploadInit /\ [][UploadNext]_uploadVars

\* ------------------------------------------------ claim on the orchestrator
UploadDone == uploadAt # NotRun /\ uploadAt.participant > Len(uploadBatch)

\* C24: a record that fails schema validation is the only thing skipped.
\* Once the batch is done, every participant has a result, a participant
\* one of whose records failed validation has each of its records that fits
\* the schema written, and the records are written in the order of the batch.
C24_OnlyFailingRecordSkipped ==
    (UploadDone /\ schemaFile = "present") =>
        /\ Len(uploadResults) = Len(uploadBatch)
        /\ \A p \in DOMAIN uploadBatch :
             (\E m \in DOMAIN uploadBatch[p] : uploadBatch[p][m] = InvalidMetric) =>
                 \A m \in DOMAIN uploadBatch[p] :
                     uploadBatch[p][m] = ValidMetric =>
                         \E w \in DOMAIN uploadWritten : uploadWritten[w] = << p, m >>
        /\ \A v, w \in DOMAIN uploadWritten :
             v < w => \/ uploadWritten[v][1] < uploadWritten[w][1]
                      \/ /\ uploadWritten[v][1] = uploadWritten[w][1]
                         /\ uploadWritten[v][2] < uploadWritten[w][2]


\* ================================================================ MDH tokens
\* mdh.MDH: the token state a client keeps (token, tokenexp), genServiceToken
\* and isTokenAlive, and makeGetRequests that uses both.  Time is counted in
\* units of five minutes, the buffer of isTokenAlive.
MaxClock == 30      \* the clock stops here
HourUnits == 12     \* timedelta(hours=1)
Delay == 1          \* timedelta(minutes=5)
Ttls == {1}         \* the ttl values of the calls (the default)

\* What the token endpoint does with a request: it issues a token, answers
\* with an HTTP error, or answers without "access_token".
TokenResponses == {"access_token", "http error", "no access_token"}

Datetime(at) == [type |-> "datetime", at |-> at]

\* The access token of one issue: the service made it for the assertion whose
\* "exp" is the tokenexp the issuing call computed.
AccessToken(issued, exp) == [type |-> "token", issued |-> issued, exp |-> exp]

\* genServiceToken, lines 54-87: tokenexp is assigned first; the token only
\* when the response carries one.
genServiceToken(now, token, ttl, response) ==
    LET exp == now + ttl * HourUnits
    IN [ tokenexp |-> Datetime(exp),
         token |-> IF response = "access_token" THEN AccessToken(now, exp) ELSE token,
         raised |-> response = "http error" ]

\* isTokenAlive, lines 98-106.
isTokenAlive(now, token, exp) ==
    IF token = None \/ exp = None THEN FALSE
    ELSE now < exp.at - Delay

MdhInit ==
    /\ mdhNow = 0
    /\ mdhToken = None
    /\ tokenexp = None
    /\ mdhSent = NotRun
    /\ EarlierIdle
    /\ QueryResultsIdle
    /\ HostIdle
    /\ ValidateIdle
    /\ UploadIdle

\* Time passes.
Tick ==
    /\ mdhNow < MaxClock
    /\ mdhNow' = mdhNow + 1
    /\ UNCHANGED << mdhToken, tokenexp, mdhSent >>
    /\ UNCHANGED << earlierVars, queryResultsVars, hostVars, validateVars, uploadVars >>

\* A caller asks for a token (needle.py:155 does).
GenServiceTokenCall ==
    /\ \E ttl \in Ttls, response \in TokenResponses :
         LET after == genServiceToken(mdhNow, mdhToken, ttl, response)
         IN /\ tokenexp' = after.tokenexp
            /\ mdhToken' = after.token
    /\ UNCHANGED << mdhNow, mdhSent >>
    /\ UNCHANGED << earlierVars, queryResultsVars, hostVars, validateVars, uploadVars >>

\* makeGetRequests, lines 113-125: a token is asked for when none is alive;
\* an HTTP error of that call ends the request; 'Bearer ' + None is a
\* TypeError; otherwise the GET goes out with self.token.
MakeGetRequests ==
    /\ \E response \in TokenResponses :
         LET alive == isTokenAlive(mdhNow, mdhToken, tokenexp)
             after == IF alive
                      THEN [tokenexp |-> tokenexp, token |-> mdhToken, raised |-> FALSE]
                      ELSE genServiceToken(mdhNow, mdhToken, 1, response)
         IN /\ tokenexp' = after.tokenexp
            /\ mdhToken' = after.token
            /\ mdhSent' = IF after.raised \/ after.token = None
                          THEN mdhSent
                          ELSE [token |-> after.token, at |-> mdhNow]
    /\ UNCHANGED mdhNow
    /\ UNCHANGED << earlierVars, queryResultsVars, hostVars, validateVars, uploadVars >>

MdhNext == Tick \/ GenServiceTokenCall \/ MakeGetRequests

MdhSpec == MdhInit /\ [][MdhNext]_mdhVars

\* --------------------------------------------------------- claim on tokens
\* C30: the stored token and the stored expiry belong to the same issue.
\* Whenever isTokenAlive() is True the stored token was issued by the call
\* that set the stored expiry, and no request has gone out with a token
\* whose own lifetime had passed.
C30_TokenAndExpiryOfOneIssue ==
    /\ isTokenAlive(mdhNow, mdhToken, tokenexp) => mdhToken.exp = tokenexp.at
    /\ mdhSent # NotRun => mdhSent.at < mdhSent.token.exp

====
